---- MODULE Spec2Model ----
(***************************************************************************)
(* Model of the CUT AI adoption platform: the persistence layer            *)
(* (database.py), the predictor (model.py), the insights client            *)
(* (openrouter_api.py), the preprocessor (utils.py), the frequency charts  *)
(* (data_viz.py), the pages (app.py) and backup and restore (db_backup.py).*)
(*                                                                          *)
(* A dataframe is a sequence of rows; a row is a function from column      *)
(* names to cells.  A table is the sequence of its committed rows in       *)
(* insertion order.  Every handler is one action; the handler's own code   *)
(* (loop, commit, rollback, finally) is an operator computing its outcome. *)
(***************************************************************************)
EXTENDS Integers, Sequences, FiniteSets, TLC

VARIABLES surveys, predictions, insights, dbUp, openOwn, callerOpen, last,
          session_state, backup, calls

vars == <<surveys, predictions, insights, dbUp, openOwn, callerOpen, last,
          session_state, backup, calls>>

(***************************************************************************)
(* Bounds of the model.                                                    *)
(***************************************************************************)
\* The rows of a dataframe and the entries of a prediction array.
MaxBatch == 2
\* The rows the predictions table is let grow to.
MaxPredictions == 2
\* In the specification of all four operations: the rows of one call's
\* dataframe, and the rows the predictions and insights tables together are
\* let grow to.
MaxCall == 1
MaxStored == 1

(***************************************************************************)
(* Python values.                                                          *)
(***************************************************************************)
\* A numeric cell holds its value in tenths (27 is 2.7); a text cell holds a
\* string that is no number.
Num(t) == [kind |-> "num", tenths |-> t, text |-> ""]
Txt(s) == [kind |-> "text", tenths |-> 0, text |-> s]

\* int(x) raises ValueError on a string that is no integer.
IntRaises(cell) == cell.kind # "num"

\* int(x) of a number truncates toward zero.
PyInt(cell) ==
  IF cell.tenths >= 0 THEN cell.tenths \div 10 ELSE -((-cell.tenths) \div 10)

\* float(x) raises ValueError on a string that is no number.
FloatRaises(cell) == cell.kind = "text"

\* float(x) of a number, kept in tenths.
PyFloat(cell) == cell.tenths

(***************************************************************************)
(* Dataframes.                                                             *)
(***************************************************************************)
RawRow(email, level, faculty, familiarity, used, tools, freq, chal, helpful, improves, sugg) ==
  ("1. Email" :> email) @@ ("2. Level of study" :> level) @@ ("3. Faculty" :> faculty)
  @@ ("4. AI familiarity" :> familiarity) @@ ("5. Used AI tools" :> used)
  @@ ("6. Tools used" :> tools) @@ ("7. Usage frequency" :> freq)
  @@ ("8. Challenges" :> chal) @@ ("9. Helpful tools needed" :> helpful)
  @@ ("10. Improves learning?" :> improves) @@ ("11. Suggestions" :> sugg)

\* The derived columns a preprocessed row carries besides the raw ones.
Derived(row, tc, cc, ap) ==
  row @@ ("used_ai_tools" :> row["5. Used AI tools"]) @@ ("tools_count" :> tc)
      @@ ("challenges_count" :> cc) @@ ("adoption_positive" :> ap)

RowA1 ==
  Derived(RawRow("a@cut.ac.zw", "Undergraduate", "Engineering", "Very familiar", "Yes",
                 "ChatGPT, Grammarly", Num(30), "None", "AI tutor", "Yes", "More training"),
          2, 0, 1)

\* Same email as RowA1, other field values, and a frequency int() rejects.
RowA2 ==
  Derived(RawRow("a@cut.ac.zw", "Postgraduate", "Business", "Somewhat familiar", "Yes",
                 "Turnitin", Txt("daily"), "Cost", "Chatbot", "No", "Cheaper tools"),
          1, 1, 0)

RowB1 ==
  Derived(RawRow("b@cut.ac.zw", "Postgraduate", "Business", "Somewhat familiar", "Yes",
                 "Turnitin", Num(27), "Cost, Lack of training", "Chatbot", "No", "Workshops"),
          1, 2, 0)

\* A row of a dataframe that was not preprocessed: no derived columns.
RowC1 ==
  RawRow("c@cut.ac.zw", "Undergraduate", "Education", "Not familiar at all", "None",
         "None", Num(10), "None", "None", "No", "None")

Rows == {RowA1, RowA2, RowB1, RowC1}

RECURSIVE SeqsUpTo(_, _)
SeqsUpTo(S, n) ==
  IF n = 0 THEN {<<>>}
  ELSE LET shorter == SeqsUpTo(S, n - 1)
       IN shorter \cup {Append(s, x) : s \in {t \in shorter : Len(t) = n - 1}, x \in S}

DataFrames == SeqsUpTo(Rows, MaxBatch)

(***************************************************************************)
(* Sessions.  db_session is None or the session the caller supplies.       *)
(***************************************************************************)
SessionArgs == {"None", "caller"}

\* database.py: close_session is set exactly when the handler opened the session.
CloseSession(db_session) == db_session = "None"

\* Variant: the session is closed at the end of the try block only.
ClosesUnlessRaised(close_session, exc) == close_session /\ exc = "none"

\* database.py: the finally block of every handler, run on every exit path:
\* whether db_session.close() is called.
FinallyCloses(close_session, exc) == close_session

(***************************************************************************)
(* The surveys table.                                                      *)
(***************************************************************************)
\* Survey(...) from a dataframe row (database.py 126-140).
SurveyOfRow(row) ==
  [email |-> row["1. Email"],
   level_of_study |-> row["2. Level of study"],
   faculty |-> row["3. Faculty"],
   ai_familiarity |-> row["4. AI familiarity"],
   used_ai_tools |-> row["5. Used AI tools"],
   tools_used |-> row["6. Tools used"],
   usage_frequency |-> PyInt(row["7. Usage frequency"]),
   challenges |-> row["8. Challenges"],
   helpful_tools_needed |-> row["9. Helpful tools needed"],
   improves_learning |-> row["10. Improves learning?"],
   suggestions |-> row["11. Suggestions"],
   tools_count |-> IF "tools_count" \in DOMAIN row THEN row["tools_count"] ELSE 0,
   challenges_count |-> IF "challenges_count" \in DOMAIN row THEN row["challenges_count"] ELSE 0]

\* The row as stored: the primary key is assigned at insertion.
Stored(survey, id) == [id |-> id] @@ survey

\* Variant: the query never finds a row.
QueryFirstMissesEveryRow(table, email) == {}

\* db_session.query(Survey).filter_by(email=...).first() on the committed rows:
\* the index of the first row with that email, if any.  The session does not
\* autoflush, so rows added and not yet committed are not seen.
QueryFirst(table, email) ==
  {i \in 1..Len(table) : table[i].email = email /\ \A j \in 1..(i - 1) : table[j].email # email}

\* The unique constraint on surveys.email.
UniqueEmail(table) ==
  \A i, j \in 1..Len(table) : table[i].email = table[j].email => i = j

\* Variant: the stored row is updated from the batch row (an upsert).
OverwriteExisting(existing, row) ==
  [existing EXCEPT !.level_of_study = row["2. Level of study"],
                   !.faculty = row["3. Faculty"],
                   !.ai_familiarity = row["4. AI familiarity"],
                   !.tools_used = row["6. Tools used"],
                   !.challenges = row["8. Challenges"],
                   !.improves_learning = row["10. Improves learning?"],
                   !.suggestions = row["11. Suggestions"]]

\* What the loop does to the stored row it found: "if existing: continue" leaves
\* the loaded object as it is.
SkipExisting(existing, row) == existing

\* The columns Survey(...) reads from the row before and after it converts the
\* usage frequency; a column the row lacks is a KeyError.
ColumnsBeforeFrequency ==
  {"2. Level of study", "3. Faculty", "4. AI familiarity", "5. Used AI tools",
   "6. Tools used", "7. Usage frequency"}
ColumnsAfterFrequency ==
  {"8. Challenges", "9. Helpful tools needed", "10. Improves learning?", "11. Suggestions"}

\* The loop of load_survey_data_to_db over df.iterrows(), from row i on: the rows
\* loaded from the table as the session holds them, the rows added to the
\* session (pending), the count, and the exception that ended the loop.
RECURSIVE LoadLoop(_, _, _, _, _, _)
LoadLoop(df, i, loaded, db_up, pending, count) ==
  IF i > Len(df) THEN [exc |-> "none", loaded |-> loaded, pending |-> pending, count |-> count]
  ELSE IF "1. Email" \notin DOMAIN df[i]
    THEN [exc |-> "KeyError", loaded |-> loaded, pending |-> pending, count |-> count]
  ELSE IF ~db_up
    THEN [exc |-> "OperationalError", loaded |-> loaded, pending |-> pending, count |-> count]
  ELSE LET existing == QueryFirst(loaded, df[i]["1. Email"])
       IN IF existing # {}
            THEN LET k == CHOOSE j \in existing : TRUE
                 IN LoadLoop(df, i + 1, [loaded EXCEPT ![k] = SkipExisting(loaded[k], df[i])],
                             db_up, pending, count)
          ELSE IF ~(ColumnsBeforeFrequency \subseteq DOMAIN df[i])
            THEN [exc |-> "KeyError", loaded |-> loaded, pending |-> pending, count |-> count]
          ELSE IF IntRaises(df[i]["7. Usage frequency"])
            THEN [exc |-> "ValueError", loaded |-> loaded, pending |-> pending, count |-> count]
          ELSE IF ~(ColumnsAfterFrequency \subseteq DOMAIN df[i])
            THEN [exc |-> "KeyError", loaded |-> loaded, pending |-> pending, count |-> count]
          ELSE LoadLoop(df, i + 1, loaded, db_up, Append(pending, SurveyOfRow(df[i])), count + 1)

\* The ids the rows of pending get when appended to table.
WithIds(table, pending) ==
  [k \in 1..Len(pending) |-> Stored(pending[k], Len(table) + k)]

\* Variant: the commit does not check the unique constraint.
CommitUnchecked(table, pending, db_up) ==
  IF pending = <<>> THEN [exc |-> "none", table |-> table]
  ELSE IF ~db_up THEN [exc |-> "OperationalError", table |-> table]
  ELSE [exc |-> "none", table |-> table \o WithIds(table, pending)]

\* db_session.commit() of the pending surveys: one transaction, all rows or none.
CommitSurveys(table, pending, db_up) ==
  IF pending = <<>> THEN [exc |-> "none", table |-> table]
  ELSE IF ~db_up THEN [exc |-> "OperationalError", table |-> table]
  ELSE IF ~UniqueEmail(table \o WithIds(table, pending))
    THEN [exc |-> "IntegrityError", table |-> table]
  ELSE [exc |-> "none", table |-> table \o WithIds(table, pending)]

\* Variant: the rows added before the failure stay.
RollbackKeepsPending(table, pending) ==
  table \o WithIds(table, pending)

\* db_session.rollback(): what the table holds after it.
Rollback(table, pending) == table

\* The value load_survey_data_to_db returns: the bare count.
LoadReturn(count, df) == <<count>>

\* load_survey_data_to_db(df, db_session) on the committed table.
load_survey_data_to_db(df, db_session, table, db_up) ==
  LET close_session == CloseSession(db_session)
      loop == LoadLoop(df, 1, table, db_up, <<>>, 0)
      com == IF loop.exc = "none" THEN CommitSurveys(loop.loaded, loop.pending, db_up)
             ELSE [exc |-> loop.exc, table |-> table]
  IN [exc |-> com.exc,
      ret |-> IF com.exc = "none" THEN LoadReturn(loop.count, df) ELSE <<>>,
      table |-> IF com.exc = "none" THEN com.table ELSE Rollback(table, loop.pending),
      closed |-> FinallyCloses(close_session, com.exc)]

(***************************************************************************)
(* fetchSurveys.                                                           *)
(***************************************************************************)
NoLimit == [some |-> FALSE, n |-> 0]
Limit(n) == [some |-> TRUE, n |-> n]
Limits == {NoLimit} \cup {Limit(n) : n \in 0..MaxBatch}

Prefix(s, n) == IF n >= Len(s) THEN s ELSE SubSeq(s, 1, n)

\* get_surveys_from_db(limit, db_session): "if limit:" is false for None and for 0.
get_surveys_from_db(limit, db_session, table, db_up) ==
  LET close_session == CloseSession(db_session)
      exc == IF db_up THEN "none" ELSE "OperationalError"
      rows == IF limit.some /\ limit.n # 0 THEN Prefix(table, limit.n) ELSE table
  IN [exc |-> exc,
      ret |-> IF exc = "none" THEN rows ELSE <<>>,
      closed |-> FinallyCloses(close_session, exc)]

\* The row surveys_to_dataframe makes of a Survey: the eleven columns and the
\* two counts, the usage frequency being the stored integer.
RowOfSurvey(survey) ==
  RawRow(survey.email, survey.level_of_study, survey.faculty, survey.ai_familiarity,
         survey.used_ai_tools, survey.tools_used, Num(10 * survey.usage_frequency),
         survey.challenges, survey.helpful_tools_needed, survey.improves_learning,
         survey.suggestions)
  @@ ("tools_count" :> survey.tools_count) @@ ("challenges_count" :> survey.challenges_count)

\* surveys_to_dataframe(surveys): pd.DataFrame of the list of rows; an empty
\* list gives a frame without columns.
surveys_to_dataframe(list) ==
  [columns |-> IF list = <<>> THEN {} ELSE DOMAIN RowOfSurvey(list[1]),
   rows |-> [k \in 1..Len(list) |-> RowOfSurvey(list[k])]]

(***************************************************************************)
(* The predictions table.                                                  *)
(***************************************************************************)
\* The predictions a caller passes: any array-like, an entry may be no number.
PredCells == {Num(9), Txt("n/a")}

\* model_version defaults to "v1.0".
ModelVersions == {"v1.0", "v2.0"}

\* Prediction(survey_id, adoption_probability, model_version); created_at is
\* the database's clock and is left out.
NewPrediction(survey, pred, model_version) ==
  [survey_id |-> survey.id,
   adoption_probability |-> PyFloat(pred),
   model_version |-> model_version]

\* A row of a dataframe whose index is not the default one carries its label
\* (a frame that was filtered or reordered); a row without one has its position.
Labelled(row, label) == row @@ ("index" :> label)

LabelOf(data, k) == IF "index" \in DOMAIN data[k] THEN data[k]["index"] ELSE k - 1

\* Variant: data.loc[i], the row labelled i (enumerate counts from 0).
Loc(data, i) ==
  IF \E k \in 1..Len(data) : LabelOf(data, k) = i - 1
    THEN data[CHOOSE k \in 1..Len(data) : LabelOf(data, k) = i - 1]
  ELSE data[i]

\* data.iloc[i]: the row at position i, whatever its label.
Iloc(data, i) == data[i]

\* Variant: the loop ends at the first entry without a survey (break for continue).
RECURSIVE PredictionLoopStops(_, _, _, _, _, _, _, _)
PredictionLoopStops(data, preds, i, table, db_up, model_version, pending, count) ==
  IF i > Len(preds) THEN [exc |-> "none", pending |-> pending, count |-> count]
  ELSE IF i > Len(data) THEN [exc |-> "IndexError", pending |-> pending, count |-> count]
  ELSE IF ~db_up THEN [exc |-> "OperationalError", pending |-> pending, count |-> count]
  ELSE LET survey == QueryFirst(table, Iloc(data, i)["1. Email"])
       IN IF survey = {}
            THEN [exc |-> "none", pending |-> pending, count |-> count]
          ELSE IF FloatRaises(preds[i])
            THEN [exc |-> "ValueError", pending |-> pending, count |-> count]
          ELSE PredictionLoopStops(data, preds, i + 1, table, db_up, model_version,
                 Append(pending, NewPrediction(table[CHOOSE k \in survey : TRUE],
                                               preds[i], model_version)),
                 count + 1)

\* The loop of save_predictions_to_db over enumerate(predictions), from entry i on.
RECURSIVE PredictionLoop(_, _, _, _, _, _, _, _)
PredictionLoop(data, preds, i, table, db_up, model_version, pending, count) ==
  IF i > Len(preds) THEN [exc |-> "none", pending |-> pending, count |-> count]
  ELSE IF i > Len(data) THEN [exc |-> "IndexError", pending |-> pending, count |-> count]
  ELSE IF ~db_up THEN [exc |-> "OperationalError", pending |-> pending, count |-> count]
  ELSE LET survey == QueryFirst(table, Iloc(data, i)["1. Email"])
       IN IF survey = {}
            THEN PredictionLoop(data, preds, i + 1, table, db_up, model_version, pending, count)
          ELSE IF FloatRaises(preds[i])
            THEN [exc |-> "ValueError", pending |-> pending, count |-> count]
          ELSE PredictionLoop(data, preds, i + 1, table, db_up, model_version,
                 Append(pending, NewPrediction(table[CHOOSE k \in survey : TRUE],
                                               preds[i], model_version)),
                 count + 1)

\* Variant: the commit replaces the rows of the table by the new ones.
CommitOverwrites(table, pending, db_up) ==
  IF pending = <<>> THEN [exc |-> "none", table |-> table]
  ELSE IF ~db_up THEN [exc |-> "OperationalError", table |-> table]
  ELSE [exc |-> "none", table |-> WithIds(<<>>, pending)]

\* db_session.commit() of pending rows appended to a table with no unique column.
CommitAppend(table, pending, db_up) ==
  IF pending = <<>> THEN [exc |-> "none", table |-> table]
  ELSE IF ~db_up THEN [exc |-> "OperationalError", table |-> table]
  ELSE [exc |-> "none", table |-> table \o WithIds(table, pending)]

\* save_predictions_to_db(data, predictions, model_version, db_session).
save_predictions_to_db(data, preds, model_version, db_session, svTable, prTable, db_up) ==
  LET close_session == CloseSession(db_session)
      loop == PredictionLoop(data, preds, 1, svTable, db_up, model_version, <<>>, 0)
      com == IF loop.exc = "none" THEN CommitAppend(prTable, loop.pending, db_up)
             ELSE [exc |-> loop.exc, table |-> prTable]
  IN [exc |-> com.exc,
      ret |-> IF com.exc = "none" THEN <<loop.count>> ELSE <<>>,
      table |-> IF com.exc = "none" THEN com.table ELSE Rollback(prTable, loop.pending),
      closed |-> FinallyCloses(close_session, com.exc)]

(***************************************************************************)
(* The insights table.                                                     *)
(***************************************************************************)
\* An optional string argument: None, or a string.
None == [none |-> TRUE, val |-> ""]
Str(s) == [none |-> FALSE, val |-> s]

\* Python truth of an optional string: None and "" are false.
Truthy(x) == ~x.none /\ x.val # ""

\* A text is the sequence of its words.
InsightTexts == {<<"Adoption", "is", "uneven">>}
\* category defaults to "general"; the Insights page saves "insights" and
\* "recommendations".
Categories == {"general", "insights", "recommendations"}
\* batch_id defaults to None.
BatchIds == {None, Str(""), Str("batch-1")}

\* Insight(insight_text, category, batch_id or "default").
NewInsight(insight_text, category, batch_id) ==
  [insight_text |-> insight_text,
   category |-> category,
   batch_id |-> IF Truthy(batch_id) THEN batch_id.val ELSE "default"]

\* save_insight_to_db(insight_text, category, batch_id, db_session): add, commit,
\* refresh, and return the created row.
save_insight_to_db(insight_text, category, batch_id, db_session, table, db_up) ==
  LET close_session == CloseSession(db_session)
      pending == <<NewInsight(insight_text, category, batch_id)>>
      com == CommitAppend(table, pending, db_up)
  IN [exc |-> com.exc,
      ret |-> IF com.exc = "none" THEN <<com.table[Len(com.table)]>> ELSE <<>>,
      table |-> IF com.exc = "none" THEN com.table ELSE Rollback(table, pending),
      closed |-> FinallyCloses(close_session, com.exc)]

(***************************************************************************)
(* Actions.  last records the call that has just returned or raised, with  *)
(* its arguments and its outcome; Idle is the caller taking the outcome,   *)
(* after which the next call is made.                                      *)
(***************************************************************************)
Idling == [op |-> "idle"]

\* st.session_state of a new browser session: the script sets no attribute
\* before the pages read them.
Unset == [kind |-> "unset", v |-> <<>>]
Attr(v) == [kind |-> "value", v |-> v]
NoAttributes == [data |-> Unset, model |-> Unset, predictions |-> Unset, insights |-> Unset]

\* The backup directory before backup_database has written to it.
NoBackup == [taken |-> FALSE, surveys |-> <<>>, predictions |-> <<>>, insights |-> <<>>]

\* Two requests served at once, each a call of load_survey_data_to_db with a
\* session of its own: where the call stands (pc), its dataframe, the row it
\* is at, the rows committed when it began, the rows added to its session and
\* its count.
Procs == {1, 2}

NotCalled ==
  [pc |-> "ready", df |-> <<>>, i |-> 1, snapshot |-> <<>>, pending |-> <<>>, count |-> 0,
   exc |-> "none", ret |-> <<>>]

\* The sessions left open by a call.
SessionEffect(db_session, closed) ==
  /\ openOwn' = IF db_session = "None" /\ ~closed THEN openOwn + 1 ELSE openOwn
  /\ callerOpen' = IF db_session = "caller" /\ closed THEN FALSE ELSE callerOpen

Init ==
  /\ surveys = <<>>
  /\ predictions = <<>>
  /\ insights = <<>>
  /\ dbUp = TRUE
  /\ openOwn = 0
  /\ callerOpen = TRUE
  /\ last = Idling
  /\ session_state = NoAttributes
  /\ backup = NoBackup
  /\ calls = [p \in Procs |-> NotCalled]

Idle ==
  /\ last # Idling
  /\ last' = Idling
  /\ UNCHANGED <<surveys, predictions, insights, dbUp, openOwn, callerOpen, session_state, backup, calls>>

\* The connection to the database is lost or restored.
Connectivity ==
  /\ last = Idling
  /\ dbUp' = ~dbUp
  /\ UNCHANGED <<surveys, predictions, insights, openOwn, callerOpen, last, session_state, backup, calls>>

Ingest(frames, sessions) ==
  /\ last = Idling
  /\ \E df \in frames, db_session \in sessions :
       LET r == load_survey_data_to_db(df, db_session, surveys, dbUp)
       IN /\ surveys' = r.table
          /\ SessionEffect(db_session, r.closed)
          /\ last' = [op |-> "ingest", df |-> df, db_session |-> db_session,
                      exc |-> r.exc, ret |-> r.ret, closed |-> r.closed]
          /\ UNCHANGED <<predictions, insights, dbUp, session_state, backup, calls>>

RecordPredictions(frames, predLists, versions, sessions, cap) ==
  /\ last = Idling
  /\ \E data \in frames, preds \in predLists, model_version \in versions,
        db_session \in sessions :
       LET r == save_predictions_to_db(data, preds, model_version, db_session,
                                       surveys, predictions, dbUp)
       IN /\ Len(r.table) <= cap
          /\ predictions' = r.table
          /\ SessionEffect(db_session, r.closed)
          /\ last' = [op |-> "recordPredictions", data |-> data, preds |-> preds,
                      model_version |-> model_version, db_session |-> db_session,
                      exc |-> r.exc, ret |-> r.ret, closed |-> r.closed]
          /\ UNCHANGED <<surveys, insights, dbUp, session_state, backup, calls>>

RecordInsight(texts, categories, batchIds, sessions, cap) ==
  /\ last = Idling
  /\ \E insight_text \in texts, category \in categories, batch_id \in batchIds,
        db_session \in sessions :
       LET r == save_insight_to_db(insight_text, category, batch_id, db_session,
                                   insights, dbUp)
       IN /\ Len(r.table) <= cap
          /\ insights' = r.table
          /\ SessionEffect(db_session, r.closed)
          /\ last' = [op |-> "recordInsight", insight_text |-> insight_text,
                      category |-> category, batch_id |-> batch_id,
                      db_session |-> db_session,
                      exc |-> r.exc, ret |-> r.ret, closed |-> r.closed]
          /\ UNCHANGED <<surveys, predictions, dbUp, session_state, backup, calls>>

FetchSurveys(sessions) ==
  /\ last = Idling
  /\ \E limit \in Limits, db_session \in sessions :
       LET r == get_surveys_from_db(limit, db_session, surveys, dbUp)
       IN /\ SessionEffect(db_session, r.closed)
          /\ last' = [op |-> "fetchSurveys", limit |-> limit, db_session |-> db_session,
                      exc |-> r.exc, ret |-> r.ret, closed |-> r.closed]
          /\ UNCHANGED <<surveys, predictions, insights, dbUp, session_state, backup, calls>>

(***************************************************************************)
(* Specifications.                                                         *)
(***************************************************************************)
\* Ingestion alone: every dataframe of up to MaxBatch rows.
NextIngest ==
  \/ Ingest(DataFrames, SessionArgs)
  \/ FetchSurveys(SessionArgs)
  \/ Connectivity
  \/ Idle

SpecIngest == Init /\ [][NextIngest]_vars

\* Predictions against a seeded store: the handler opens its own session, as
\* the pages call it.
SeedFrames == SeqsUpTo({RowA1, RowB1}, MaxBatch)
PredictionFrames == SeqsUpTo({RowA1, RowB1, RowC1}, MaxBatch)
PredictionLists == SeqsUpTo(PredCells, MaxBatch)

NextPredictions ==
  \/ Ingest(SeedFrames, {"None"})
  \/ RecordPredictions(PredictionFrames, PredictionLists, ModelVersions, {"None"},
                       MaxPredictions)
  \/ Connectivity
  \/ Idle

SpecPredictions == Init /\ [][NextPredictions]_vars

\* Predictions for frames whose index is not the default one: the rows of a
\* two-row frame labelled in reverse, next to the frames labelled by position.
IndexedFrames ==
  SeedFrames \cup {<<Labelled(r1, 1), Labelled(r2, 0)>> : r1, r2 \in {RowA1, RowB1, RowC1}}

AlignedLists == SeqsUpTo({Num(2), Num(9)}, MaxBatch)

NextAlignment ==
  \/ Ingest(SeedFrames, {"None"})
  \/ RecordPredictions(IndexedFrames, AlignedLists, ModelVersions, {"None"}, MaxPredictions)
  \/ Idle

SpecAlignment == Init /\ [][NextAlignment]_vars

\* The four operations of the persistence layer in any order, each with or
\* without a session of the caller.
CallFrames == SeqsUpTo(Rows, MaxCall)
CallLists == SeqsUpTo(PredCells, MaxCall)

Next ==
  \/ Ingest(CallFrames, SessionArgs)
  \/ RecordPredictions(CallFrames, CallLists, {"v1.0"}, SessionArgs,
                       MaxStored - Len(insights))
  \/ RecordInsight(InsightTexts, Categories, BatchIds, SessionArgs,
                   MaxStored - Len(predictions))
  \/ FetchSurveys(SessionArgs)
  \/ Connectivity
  \/ Idle

Spec == Init /\ [][Next]_vars

(***************************************************************************)
(* The predictor (model.py).  Here a dataframe is given with its columns,  *)
(* since the column lookups do not depend on the rows.                     *)
(***************************************************************************)
\* prepare_features: the features list and the target.
features ==
  {"2. Level of study", "3. Faculty", "4. AI familiarity", "7. Usage frequency",
   "tools_count", "challenges_count", "used_ai_tools", "6. Tools used"}

target == "adoption_positive"

RawColumns == DOMAIN RowC1
PreprocessedColumns == DOMAIN RowA1
\* The columns surveys_to_dataframe gives.
StoreColumns == RawColumns \cup {"tools_count", "challenges_count"}

ColumnSets ==
  {PreprocessedColumns, PreprocessedColumns \ {target}, StoreColumns, RawColumns,
   PreprocessedColumns \ {"tools_count"}}

\* RowC1 after preprocessing.
RowC2 == Derived(RowC1, 0, 0, 0)

Project(row, columns) == [c \in columns |-> row[c]]

PredictorFrames ==
  {[columns |-> cols, rows |-> [i \in 1..Len(rs) |-> Project(rs[i], cols)]] :
     cols \in ColumnSets, rs \in SeqsUpTo({RowA1, RowB1, RowC2}, MaxBatch) \ {<<>>}}

\* prepare_features(data): data[features], then data[target]; a missing column
\* is a KeyError.
prepare_features(data) ==
  IF ~(features \subseteq data.columns) THEN [exc |-> "KeyError", X |-> <<>>, y |-> <<>>]
  ELSE IF target \notin data.columns THEN [exc |-> "KeyError", X |-> <<>>, y |-> <<>>]
  ELSE [exc |-> "none",
        X |-> [i \in 1..Len(data.rows) |-> Project(data.rows[i], features)],
        y |-> [i \in 1..Len(data.rows) |-> data.rows[i][target]]]

\* A fitted pipeline is a function of the feature row; the probability of the
\* positive class is kept in tenths.
Models == {"by_frequency", "by_tools"}

PredictProba(model, x) ==
  IF model = "by_frequency"
    THEN (IF x["7. Usage frequency"].tenths >= 20 THEN 8 ELSE 3)
    ELSE (IF x["tools_count"] >= 1 THEN 7 ELSE 1)

\* predict_adoption(model, data): model.predict_proba(X)[:, 1].
predict_adoption(model, data) ==
  LET p == prepare_features(data)
  IN IF p.exc # "none" THEN [exc |-> p.exc, ret |-> <<>>]
     ELSE [exc |-> "none", ret |-> [i \in 1..Len(p.X) |-> PredictProba(model, p.X[i])]]

PredictAdoption ==
  /\ last = Idling
  /\ \E model \in Models, data \in PredictorFrames :
       LET r == predict_adoption(model, data)
       IN last' = [op |-> "predict_adoption", model |-> model, data |-> data,
                   exc |-> r.exc, ret |-> r.ret]
  /\ UNCHANGED <<surveys, predictions, insights, dbUp, openOwn, callerOpen, session_state, backup, calls>>

NextPredictor == PredictAdoption \/ Idle

SpecPredictor == Init /\ [][NextPredictor]_vars

(***************************************************************************)
(* The insights client (openrouter_api.py).  A text is the sequence of its *)
(* words; a returned value is a text or Python's None.                     *)
(***************************************************************************)
PyNone == [none |-> TRUE, text |-> <<>>]
Text(t) == [none |-> FALSE, text |-> t]

\* "marker in text".
Contains(text, marker) == \E i \in 1..Len(text) : text[i] = marker

\* The hard-coded key and model id of the module.
DEFAULT_API_KEY == "sk-or-v1-default"
DEFAULT_MODEL_ID == "deepseek/deepseek-r1-distill-qwen-32b:free"

\* os.getenv(name, default): the variable's value when it is set, also when it
\* is set to the empty string; the default when it is not set.
Getenv(value, default) == IF value.none THEN Str(default) ELSE value

\* get_api_key(): the key, or None when it is empty.
get_api_key(env_key) ==
  LET api_key == Getenv(env_key, DEFAULT_API_KEY)
  IN IF ~Truthy(api_key) THEN None ELSE api_key

\* get_model_id().
get_model_id(env_model) == Getenv(env_model, DEFAULT_MODEL_ID).val

\* generate_mock_insights(): the canned text, its numbered points shortened.
generate_mock_insights ==
  <<"Insights:", "1.", "The", "majority", "of", "respondents", "2.", "The", "most",
    "commonly", "used", "AI", "tools", "Recommendations:", "1.", "Implement",
    "targeted", "AI", "literacy", "workshops">>

\* What the remote call does: requests.post raises, or a response comes back
\* with a status and a body.  A body is JSON or not; a JSON body has the path
\* choices[0].message.content down to some depth, the content a text or null.
FormattedReply ==
  <<"Insights:", "1.", "Adoption", "is", "uneven", "Recommendations:", "1.", "Run",
    "workshops">>
UnformattedReply == <<"I", "cannot", "analyze", "this">>

Bodies ==
  {[json |-> FALSE, depth |-> "none", content |-> PyNone]}
  \cup {[json |-> TRUE, depth |-> d, content |-> PyNone] :
          d \in {"no_choices", "empty_choices", "no_message", "no_content"}}
  \cup {[json |-> TRUE, depth |-> "content", content |-> c] :
          c \in {Text(FormattedReply), Text(UnformattedReply), PyNone}}

Replies ==
  {[kind |-> "raises", status |-> 0, body |-> [json |-> FALSE, depth |-> "none", content |-> PyNone]]}
  \cup {[kind |-> "response", status |-> st, body |-> b] : st \in {200, 201, 404, 500}, b \in Bodies}

\* The try block: the status test, response.json() and the lookups.
TryRequest(reply) ==
  IF reply.kind = "raises" THEN [exc |-> "ConnectionError", ret |-> PyNone]
  ELSE IF reply.status = 200
    THEN IF ~reply.body.json THEN [exc |-> "JSONDecodeError", ret |-> PyNone]
         ELSE IF reply.body.depth = "no_choices" THEN [exc |-> "KeyError", ret |-> PyNone]
         ELSE IF reply.body.depth = "empty_choices" THEN [exc |-> "IndexError", ret |-> PyNone]
         ELSE IF reply.body.depth \in {"no_message", "no_content"}
           THEN [exc |-> "KeyError", ret |-> PyNone]
         ELSE [exc |-> "none", ret |-> reply.body.content]
  ELSE [exc |-> "none", ret |-> Text(generate_mock_insights)]

\* Variant: only the transport's exceptions are caught.
ExceptTransportOnly(exc) == exc = "ConnectionError"

\* "except Exception": the exceptions the handler catches.
ExceptException(exc) == exc # "none"

\* get_ai_insights(prompt) in an environment and against a remote outcome.
get_ai_insights(prompt, env_key, env_model, reply) ==
  LET api_key == get_api_key(env_key)
      model_id == get_model_id(env_model)
      request == [authorization |-> <<"Bearer", api_key.val>>, model |-> model_id,
                  content |-> prompt]
      try == TryRequest(reply)
  IN IF ~Truthy(api_key)
       THEN [exc |-> "none", ret |-> Text(generate_mock_insights), posted |-> <<>>]
     ELSE IF try.exc = "none"
       THEN [exc |-> "none", ret |-> try.ret, posted |-> <<request>>]
     ELSE IF ExceptException(try.exc)
       THEN [exc |-> "none", ret |-> Text(generate_mock_insights), posted |-> <<request>>]
     ELSE [exc |-> try.exc, ret |-> PyNone, posted |-> <<request>>]

\* The environment variable is not set, is set to the empty string, or is set.
EnvKeys == {None, Str(""), Str("sk-or-v1-user")}
EnvModels == {None, Str("openai/gpt-4o-mini")}
Prompts == {<<"Analyze", "this", "survey", "data">>}

GetAiInsights ==
  /\ last = Idling
  /\ \E prompt \in Prompts, env_key \in EnvKeys, env_model \in EnvModels, reply \in Replies :
       LET r == get_ai_insights(prompt, env_key, env_model, reply)
       IN last' = [op |-> "get_ai_insights", prompt |-> prompt, env_key |-> env_key,
                   env_model |-> env_model, reply |-> reply,
                   exc |-> r.exc, ret |-> r.ret, posted |-> r.posted]
  /\ UNCHANGED <<surveys, predictions, insights, dbUp, openOwn, callerOpen, session_state, backup, calls>>

NextInsightsClient == GetAiInsights \/ Idle

SpecInsightsClient == Init /\ [][NextInsightsClient]_vars

(***************************************************************************)
(* The preprocessor (utils.py).  A cell of an uploaded file is a missing   *)
(* value, a string (the sequence of its characters) or a number in tenths. *)
(***************************************************************************)
NaN == [kind |-> "nan", tenths |-> 0, chars |-> <<>>]
Chars(s) == [kind |-> "str", tenths |-> 0, chars |-> s]
Number(t) == [kind |-> "num", tenths |-> t, chars |-> <<>>]

\* The literals the code compares with and fills in.
NONE == <<"N", "o", "n", "e">>
YES == <<"Y", "e", "s">>
NO == <<"N", "o">>
NOT_FAMILIAR == <<"N", "o", "t", " ", "f", "a", "m", "i", "l", "i", "a", "r", " ", "a", "t", " ", "a", "l", "l">>

\* s has sep at position i.
HasAt(s, sep, i) ==
  /\ i + Len(sep) - 1 <= Len(s)
  /\ \A k \in 1..Len(sep) : s[i + k - 1] = sep[k]

\* str.split(sep) from position i on: cur is the piece being read, acc the
\* pieces read.
RECURSIVE SplitFrom(_, _, _, _, _)
SplitFrom(s, sep, i, cur, acc) ==
  IF i > Len(s) THEN Append(acc, cur)
  ELSE IF HasAt(s, sep, i) THEN SplitFrom(s, sep, i + Len(sep), <<>>, Append(acc, cur))
  ELSE SplitFrom(s, sep, i + 1, Append(cur, s[i]), acc)

\* s.split(sep) for a non-empty sep.
Split(s, sep) == SplitFrom(s, sep, 1, <<>>, <<>>)

\* s.strip(): the whitespace at both ends goes.
RECURSIVE Strip(_)
Strip(s) ==
  IF s = <<>> THEN s
  ELSE IF Head(s) = " " THEN Strip(Tail(s))
  ELSE IF s[Len(s)] = " " THEN Strip(SubSeq(s, 1, Len(s) - 1))
  ELSE s

Digits == ("0" :> 0) @@ ("1" :> 1) @@ ("2" :> 2) @@ ("3" :> 3) @@ ("4" :> 4)
          @@ ("5" :> 5) @@ ("6" :> 6) @@ ("7" :> 7) @@ ("8" :> 8) @@ ("9" :> 9)

AllDigits(s) == s # <<>> /\ \A k \in 1..Len(s) : s[k] \in DOMAIN Digits

RECURSIVE IntOf(_)
IntOf(s) == IF s = <<>> THEN 0 ELSE 10 * IntOf(SubSeq(s, 1, Len(s) - 1)) + Digits[s[Len(s)]]

\* pd.to_numeric(..., errors="coerce") of one cell: a number stays, a string
\* that reads as a number (digits, at most one decimal here) becomes it, any
\* other string becomes a missing value.
to_numeric(cell) ==
  IF cell.kind # "str" THEN cell
  ELSE LET s == cell.chars
           n == Len(s)
       IN IF AllDigits(s) THEN Number(10 * IntOf(s))
          ELSE IF n >= 3 /\ s[n - 1] = "." /\ AllDigits(SubSeq(s, 1, n - 2)) /\ s[n] \in DOMAIN Digits
            THEN Number(10 * IntOf(SubSeq(s, 1, n - 2)) + Digits[s[n]])
          ELSE NaN

\* The dictionary given to df.fillna.
FillValues ==
  ("4. AI familiarity" :> Chars(NOT_FAMILIAR)) @@ ("5. Used AI tools" :> Chars(NONE))
  @@ ("6. Tools used" :> Chars(NONE)) @@ ("7. Usage frequency" :> Number(10))
  @@ ("8. Challenges" :> Chars(NONE)) @@ ("10. Improves learning?" :> Chars(NO))

\* Variant: every column with a missing value gets a default.
FillEveryColumn(row) ==
  [c \in DOMAIN row |->
     IF row[c].kind # "nan" THEN row[c]
     ELSE IF c \in DOMAIN FillValues THEN FillValues[c] ELSE Chars(NONE)]

\* df.fillna({...}) on one row: only the columns of the dictionary are filled.
Fillna(row) ==
  [c \in DOMAIN row |->
     IF c \in DOMAIN FillValues /\ row[c].kind = "nan" THEN FillValues[c] ELSE row[c]]

\* pd.to_numeric(..., errors="coerce").fillna(1) of one cell.
CoerceFrequency(cell) ==
  LET v == to_numeric(cell) IN IF v.kind = "nan" THEN Number(10) ELSE v

\* lambda x: 0 if x == "None" else len(str(x).split(", ")); the str() of a
\* number has no ", " in it.
CountEntries(cell) ==
  IF cell.kind # "str" THEN 1
  ELSE IF cell.chars = NONE THEN 0 ELSE Len(Split(cell.chars, <<",", " ">>))

\* Variant: the answer is trimmed before it is compared.
PositiveTrimmed(cell) ==
  IF cell.kind = "str" /\ Strip(cell.chars) = YES THEN 1 ELSE 0

\* lambda x: 1 if x == "Yes" else 0.
Positive(cell) ==
  IF cell.kind = "str" /\ cell.chars = YES THEN 1 ELSE 0

\* The columns preprocess_data reads, in the order it reads them.
ReadColumns ==
  <<"5. Used AI tools", "7. Usage frequency", "6. Tools used", "8. Challenges",
    "10. Improves learning?">>

\* One row of the frame preprocess_data returns.
PreprocessRow(row) ==
  LET f == Fillna(row)
  IN ("used_ai_tools" :> f["5. Used AI tools"])
     @@ ("tools_count" :> CountEntries(f["6. Tools used"]))
     @@ ("challenges_count" :> CountEntries(f["8. Challenges"]))
     @@ ("adoption_positive" :> Positive(f["10. Improves learning?"]))
     @@ [c \in DOMAIN f |-> IF c = "7. Usage frequency" THEN CoerceFrequency(f[c]) ELSE f[c]]

\* preprocess_data(data): a column it reads and the frame lacks is a KeyError.
preprocess_data(data) ==
  IF \E k \in 1..Len(ReadColumns) : ReadColumns[k] \notin data.columns
    THEN [exc |-> "KeyError", ret |-> [columns |-> {}, rows |-> <<>>]]
  ELSE [exc |-> "none",
        ret |-> [columns |-> data.columns \cup {"used_ai_tools", "tools_count",
                                                 "challenges_count", "adoption_positive"},
                 rows |-> [i \in 1..Len(data.rows) |-> PreprocessRow(data.rows[i])]]]

\* The address cells of the uploaded rows.
EmailCells == {Chars(<<"a", "@">>), Chars(<<"b", "@">>)}

\* The rows of an uploaded file: every combination of a missing value and of
\* the strings and numbers a column may hold.
CsvRows ==
  {RawRow(Chars(<<"a", "@">>), Chars(<<"U">>), Chars(<<"E">>), familiarity, used, tools,
          freq, chal, Chars(<<"H">>), improves, sugg) :
     familiarity \in {NaN, Chars(<<"V", "e", "r", "y">>)},
     used \in {NaN, Chars(YES)},
     tools \in {NaN, Chars(NONE), Chars(<<"G">>), Chars(<<"G", ",", "T">>),
                Chars(<<"G", ",", " ", "T">>)},
     freq \in {NaN, Number(30), Chars(<<"3">>), Chars(<<"2", ".", "5">>),
               Chars(<<"d", "a", "i", "l", "y">>)},
     chal \in {NaN, Chars(NONE), Chars(<<"C", ",", " ", "D">>)},
     improves \in {NaN, Chars(YES), Chars(NO), Chars(<<"y", "e", "s">>),
                   Chars(<<"Y", "e", "s", " ">>)},
     sugg \in {NaN, Chars(<<"W">>)}}

\* A file of one row with the eleven columns, and the same file with one of
\* the columns left out.
CsvFrames ==
  {[columns |-> RawColumns, rows |-> <<row>>] : row \in CsvRows}
  \cup {[columns |-> RawColumns \ {c}, rows |-> <<Project(row, RawColumns \ {c})>>] :
          c \in RawColumns,
          row \in {RawRow(Chars(<<"a", "@">>), Chars(<<"U">>), Chars(<<"E">>), NaN, NaN, NaN,
                          NaN, NaN, Chars(<<"H">>), NaN, NaN)}}

Preprocess ==
  /\ last = Idling
  /\ \E data \in CsvFrames :
       LET r == preprocess_data(data)
       IN last' = [op |-> "preprocess_data", data |-> data, exc |-> r.exc, ret |-> r.ret]
  /\ UNCHANGED <<surveys, predictions, insights, dbUp, openOwn, callerOpen, session_state, backup, calls>>

NextPreprocess == Preprocess \/ Idle

SpecPreprocess == Init /\ [][NextPreprocess]_vars

(***************************************************************************)
(* The frequency charts (data_viz.py).                                     *)
(***************************************************************************)
\* The rows of a charted frame.
MaxChartRows == 2

\* Variant: the sentinel is taken for an entry like any other.
MentionedAlways(cell) == TRUE

\* if tools != "None": the field names entries.
Mentioned(cell) == cell.chars # NONE

\* [entry.strip() for entry in field.split(",")].
Entries(cell) ==
  LET pieces == Split(cell.chars, <<",">>)
  IN [k \in 1..Len(pieces) |-> Strip(pieces[k])]

\* extract_tools(tools_str): no entry for a missing value and for "None", else
\* the stripped pieces between commas; a number has no split.
extract_tools(tools_str) ==
  IF tools_str.kind = "nan" \/ (tools_str.kind = "str" /\ tools_str.chars = NONE)
    THEN [exc |-> "none", ret |-> <<>>]
  ELSE IF tools_str.kind # "str" THEN [exc |-> "AttributeError", ret |-> <<>>]
  ELSE [exc |-> "none", ret |-> Entries(tools_str)]

\* extract_challenges(challenges_str): the same code.
extract_challenges(challenges_str) ==
  IF challenges_str.kind = "nan" \/ (challenges_str.kind = "str" /\ challenges_str.chars = NONE)
    THEN [exc |-> "none", ret |-> <<>>]
  ELSE IF challenges_str.kind # "str" THEN [exc |-> "AttributeError", ret |-> <<>>]
  ELSE [exc |-> "none", ret |-> Entries(challenges_str)]

\* The list the loop over data[column].dropna() builds, from row i on.
RECURSIVE Collect(_, _, _, _)
Collect(rows, column, i, all) ==
  IF i > Len(rows) THEN all
  ELSE LET cell == rows[i][column]
       IN IF cell.kind = "nan" THEN Collect(rows, column, i + 1, all)
          ELSE IF Mentioned(cell) THEN Collect(rows, column, i + 1, all \o Entries(cell))
          ELSE Collect(rows, column, i + 1, all)

\* Counter(all): each entry with the number of times it occurs.
Counter(all) ==
  [e \in {all[k] : k \in 1..Len(all)} |-> Cardinality({k \in 1..Len(all) : all[k] = e})]

\* sort_values("Count", ascending=False).head(n): n entries of the largest counts.
Top(counts, n) ==
  IF Cardinality(DOMAIN counts) <= n THEN counts
  ELSE LET kept == CHOOSE T \in SUBSET DOMAIN counts :
                     /\ Cardinality(T) = n
                     /\ \A a \in T, b \in (DOMAIN counts) \ T : counts[a] >= counts[b]
       IN [e \in kept |-> counts[e]]

\* The categories a chart of the entries of one column shows.
FrequencyChart(data, column, n) ==
  IF column \notin data.columns THEN [exc |-> "KeyError", categories |-> Counter(<<>>)]
  ELSE [exc |-> "none", categories |-> Top(Counter(Collect(data.rows, column, 1, <<>>)), n)]

create_tool_usage_chart(data) == FrequencyChart(data, "6. Tools used", 10)

create_challenges_chart(data) == FrequencyChart(data, "8. Challenges", 8)

ChartCells ==
  {NaN, Chars(NONE), Chars(<<"C">>), Chars(<<"C", ",", "D">>), Chars(<<"D", ",", " ", "C">>)}

ChartRows ==
  {RawRow(Chars(<<"a", "@">>), Chars(<<"U">>), Chars(<<"E">>), Chars(<<"V">>), Chars(YES), tools,
          Number(30), chal, Chars(<<"H">>), Chars(YES), NaN) :
     tools \in ChartCells, chal \in ChartCells}

ChartFrames ==
  {[columns |-> RawColumns, rows |-> rows] : rows \in SeqsUpTo(ChartRows, MaxChartRows)}
  \cup {[columns |-> RawColumns \ {c}, rows |-> <<>>] : c \in {"6. Tools used", "8. Challenges"}}

ToolUsageChart ==
  /\ last = Idling
  /\ \E data \in ChartFrames :
       LET r == create_tool_usage_chart(data)
       IN last' = [op |-> "create_tool_usage_chart", column |-> "6. Tools used", data |-> data,
                   exc |-> r.exc, categories |-> r.categories]
  /\ UNCHANGED <<surveys, predictions, insights, dbUp, openOwn, callerOpen, session_state, backup, calls>>

ChallengesChart ==
  /\ last = Idling
  /\ \E data \in ChartFrames :
       LET r == create_challenges_chart(data)
       IN last' = [op |-> "create_challenges_chart", column |-> "8. Challenges", data |-> data,
                   exc |-> r.exc, categories |-> r.categories]
  /\ UNCHANGED <<surveys, predictions, insights, dbUp, openOwn, callerOpen, session_state, backup, calls>>

NextCharts == ToolUsageChart \/ ChallengesChart \/ Idle

SpecCharts == Init /\ [][NextCharts]_vars

(***************************************************************************)
(* The pages (app.py).  One run of the script renders the selected page;   *)
(* st.session_state lasts over the runs of a browser session.              *)
(***************************************************************************)
\* What a page run leaves: the exception that escaped the script, the one the
\* page caught, the message shown, the operations it called, and the state.
Outcome(exc, caught, message, attempted, state, sv, pr, ins) ==
  [exc |-> exc, caught |-> caught, message |-> message, attempted |-> attempted,
   state |-> state, surveys |-> sv, predictions |-> pr, insights |-> ins]

\* st.session_state.name: an attribute that was never assigned is an
\* AttributeError.
Reads(state, name) == IF state[name].kind = "unset" THEN "AttributeError" ELSE "none"

\* "st.session_state.name is None".
IsNone(state, name) == state[name].kind = "None"

\* Data Upload (app.py 115-169).  uploaded_file is None or a file read_csv
\* parses; everything after the test is inside try ... except Exception.
DataUploadPage(uploaded_file, train, fitted, state, sv, pr, ins, db_up) ==
  IF ~uploaded_file.some THEN Outcome("none", "none", "", <<>>, state, sv, pr, ins)
  ELSE LET data == uploaded_file.data
       IN IF Cardinality(data.columns) < 5
            THEN Outcome("none", "none", "not enough columns", <<>>, state, sv, pr, ins)
          ELSE LET p == preprocess_data(data)
               IN IF p.exc # "none"
                    THEN Outcome("none", p.exc, "Error processing file", <<"preprocess_data">>,
                                 state, sv, pr, ins)
                  ELSE LET state1 == [state EXCEPT !.data = Attr(p.ret)]
                           r == load_survey_data_to_db(p.ret.rows, "None", sv, db_up)
                           called == <<"preprocess_data", "load_survey_data_to_db">>
                       IN IF r.exc # "none"
                            THEN Outcome("none", r.exc, "Error processing file", called,
                                         state1, r.table, pr, ins)
                          ELSE IF Len(r.ret) # 3
                            THEN Outcome("none", "TypeError", "Error processing file", called,
                                         state1, r.table, pr, ins)
                          ELSE IF ~train
                            THEN Outcome("none", "none", "uploaded", called, state1, r.table, pr, ins)
                          ELSE IF prepare_features(p.ret).exc # "none"
                            THEN Outcome("none", "KeyError", "Error processing file",
                                         Append(called, "train_model"), state1, r.table, pr, ins)
                          ELSE Outcome("none", "none", "trained", Append(called, "train_model"),
                                       [state1 EXCEPT !.model = Attr(fitted)], r.table, pr, ins)

\* The columns the Dashboard reads for its filters, and for metrics and charts.
FilterColumns == {"3. Faculty", "2. Level of study"}
DashboardColumns ==
  {"4. AI familiarity", "5. Used AI tools", "10. Improves learning?", "7. Usage frequency",
   "6. Tools used", "adoption_positive", "tools_count", "1. Email", "8. Challenges"}

\* Dashboard (app.py 171-248); selected says whether the filters keep any row.
DashboardPage(selected, state, sv, pr, ins) ==
  IF Reads(state, "data") # "none"
    THEN Outcome(Reads(state, "data"), "none", "", <<>>, state, sv, pr, ins)
  ELSE IF IsNone(state, "data")
    THEN Outcome("none", "none", "Please upload data first", <<>>, state, sv, pr, ins)
  ELSE LET data == state.data.v
       IN IF ~(FilterColumns \subseteq data.columns)
            THEN Outcome("KeyError", "none", "", <<>>, state, sv, pr, ins)
          ELSE IF data.rows = <<>> \/ ~selected
            THEN Outcome("none", "none", "No data matches the selected filters", <<>>,
                         state, sv, pr, ins)
          ELSE IF ~(DashboardColumns \subseteq data.columns)
            THEN Outcome("KeyError", "none", "", <<"charts">>, state, sv, pr, ins)
          ELSE Outcome("none", "none", "rendered", <<"charts">>, state, sv, pr, ins)

\* AI Predictions (app.py 250-320).
PredictionsPage(state, sv, pr, ins, db_up) ==
  IF Reads(state, "data") # "none"
    THEN Outcome(Reads(state, "data"), "none", "", <<>>, state, sv, pr, ins)
  ELSE IF IsNone(state, "data")
    THEN Outcome("none", "none", "Please upload data first", <<>>, state, sv, pr, ins)
  ELSE IF Reads(state, "model") # "none"
    THEN Outcome(Reads(state, "model"), "none", "", <<>>, state, sv, pr, ins)
  ELSE IF IsNone(state, "model")
    THEN Outcome("none", "none", "Please train a model first", <<>>, state, sv, pr, ins)
  ELSE IF Reads(state, "predictions") # "none"
    THEN Outcome(Reads(state, "predictions"), "none", "", <<>>, state, sv, pr, ins)
  ELSE IF ~IsNone(state, "predictions")
    THEN Outcome("none", "none", "rendered", <<>>, state, sv, pr, ins)
  ELSE LET p == predict_adoption(state.model.v, state.data.v)
       IN IF p.exc # "none"
            THEN Outcome(p.exc, "none", "", <<"predict_adoption">>, state, sv, pr, ins)
          ELSE LET state1 == [state EXCEPT !.predictions = Attr(p.ret)]
                   r == save_predictions_to_db(state.data.v.rows,
                                               [i \in 1..Len(p.ret) |-> Num(p.ret[i])],
                                               "v1.0", "None", sv, pr, db_up)
                   called == <<"predict_adoption", "save_predictions_to_db">>
               IN IF r.exc # "none" THEN Outcome(r.exc, "none", "", called, state1, sv, r.table, ins)
                  ELSE Outcome("none", "none", "rendered", called, state1, sv, r.table, ins)

\* The position of the first "Recommendations:" of a text that has one.
MarkerAt(text) ==
  CHOOSE i \in 1..Len(text) :
    text[i] = "Recommendations:" /\ \A j \in 1..(i - 1) : text[j] # "Recommendations:"

\* insights.split("Recommendations:")[0].replace("Insights:", "").strip().
InsightsPart(text) ==
  SelectSeq(SubSeq(text, 1, MarkerAt(text) - 1), LAMBDA w : w # "Insights:")

\* insights.split("Recommendations:")[1].strip(): up to the next marker.
RECURSIVE UpToMarker(_)
UpToMarker(text) ==
  IF text = <<>> \/ Head(text) = "Recommendations:" THEN <<>>
  ELSE <<Head(text)>> \o UpToMarker(Tail(text))

RecommendationsPart(text) == UpToMarker(SubSeq(text, MarkerAt(text) + 1, Len(text)))

\* The two blocks of a reply in the expected format are saved under one batch
\* id by two calls, each with a session and a commit of its own; drops says
\* that the connection is lost between them.
SaveBlocks(text, table, db_up, drops) ==
  LET first == save_insight_to_db(InsightsPart(text), "insights", Str("uuid4"), "None",
                                  table, db_up)
  IN IF first.exc # "none" THEN first
     ELSE save_insight_to_db(RecommendationsPart(text), "recommendations", Str("uuid4"), "None",
                             first.table, db_up /\ ~drops)

\* Insights & Suggestions (app.py 322-413).
InsightsPage(env_key, env_model, reply, state, sv, pr, ins, db_up, drops) ==
  IF Reads(state, "data") # "none"
    THEN Outcome(Reads(state, "data"), "none", "", <<>>, state, sv, pr, ins)
  ELSE IF IsNone(state, "data")
    THEN Outcome("none", "none", "Please upload data first", <<>>, state, sv, pr, ins)
  ELSE IF Reads(state, "insights") # "none"
    THEN Outcome(Reads(state, "insights"), "none", "", <<>>, state, sv, pr, ins)
  ELSE IF ~IsNone(state, "insights")
    THEN Outcome("none", "none", "rendered", <<>>, state, sv, pr, ins)
  ELSE LET g == get_ai_insights(<<"Analyze", "this", "survey", "data">>, env_key, env_model, reply)
           state1 == [state EXCEPT !.insights = Attr(g.ret)]
           called == <<"get_ai_insights">>
       IN IF g.ret.none THEN Outcome("TypeError", "none", "", called, state1, sv, pr, ins)
          ELSE IF ~(Contains(g.ret.text, "Insights:") /\ Contains(g.ret.text, "Recommendations:"))
            THEN Outcome("none", "none", "Failed to generate proper insights format", called,
                         state1, sv, pr, ins)
          ELSE LET s == SaveBlocks(g.ret.text, ins, db_up, drops)
               IN IF s.exc # "none"
                    THEN Outcome(s.exc, "none", "", Append(called, "save_insight_to_db"),
                                 state1, sv, pr, s.table)
                  ELSE Outcome("none", "none", "rendered", Append(called, "save_insight_to_db"),
                               state1, sv, pr, s.table)

\* The rows of an uploaded file.
MaxUpload == 2

NoFile == [some |-> FALSE, data |-> [columns |-> {}, rows |-> <<>>]]
File(data) == [some |-> TRUE, data |-> data]

UploadRows ==
  {RawRow(email, Chars(<<"U">>), Chars(<<"E">>), NaN, Chars(YES), Chars(<<"G", ",", " ", "T">>),
          freq, Chars(NONE), Chars(<<"H">>), Chars(YES), NaN) :
     email \in EmailCells, freq \in {Number(30), Chars(<<"d", "a", "i", "l", "y">>)}}

\* Files with the eleven columns, files that lack one of them, and a file of
\* four columns.
UploadFiles ==
  {NoFile}
  \cup {File([columns |-> RawColumns, rows |-> rows]) : rows \in SeqsUpTo(UploadRows, MaxUpload)}
  \cup {File([columns |-> RawColumns \ {c},
               rows |-> [i \in 1..Len(rows) |-> Project(rows[i], RawColumns \ {c})]]) :
          c \in RawColumns, rows \in SeqsUpTo(UploadRows, 1) \ {<<>>}}
  \cup {File([columns |-> cols, rows |-> <<>>]) :
          cols \in {{"1. Email", "2. Level of study", "3. Faculty", "4. AI familiarity"}}}

\* The page run takes effect.
Shown(o) ==
  /\ session_state' = o.state
  /\ surveys' = o.surveys
  /\ predictions' = o.predictions
  /\ insights' = o.insights
  /\ UNCHANGED <<dbUp, openOwn, callerOpen, backup, calls>>

OpenDataUpload(files) ==
  /\ last = Idling
  /\ \E uploaded_file \in files, train \in BOOLEAN, fitted \in Models :
       LET o == DataUploadPage(uploaded_file, train, fitted, session_state,
                               surveys, predictions, insights, dbUp)
       IN /\ Shown(o)
          /\ last' = [op |-> "Data Upload", uploaded_file |-> uploaded_file,
                      before |-> session_state, stored |-> surveys,
                      exc |-> o.exc, caught |-> o.caught, message |-> o.message,
                      attempted |-> o.attempted]

OpenDashboard ==
  /\ last = Idling
  /\ \E selected \in BOOLEAN :
       LET o == DashboardPage(selected, session_state, surveys, predictions, insights)
       IN /\ Shown(o)
          /\ last' = [op |-> "Dashboard", before |-> session_state,
                      exc |-> o.exc, caught |-> o.caught, message |-> o.message,
                      attempted |-> o.attempted]

OpenPredictions ==
  /\ last = Idling
  /\ LET o == PredictionsPage(session_state, surveys, predictions, insights, dbUp)
     IN /\ Shown(o)
        /\ last' = [op |-> "AI Predictions", before |-> session_state,
                    exc |-> o.exc, caught |-> o.caught, message |-> o.message,
                    attempted |-> o.attempted]

OpenInsights(losses) ==
  /\ last = Idling
  /\ \E env_key \in EnvKeys, env_model \in {None}, drops \in losses,
        reply \in {r \in Replies : r.status \in {0, 200}} :
       LET o == InsightsPage(env_key, env_model, reply, session_state,
                             surveys, predictions, insights, dbUp, drops)
       IN /\ Shown(o)
          /\ last' = [op |-> "Insights & Suggestions", before |-> session_state,
                      exc |-> o.exc, caught |-> o.caught, message |-> o.message,
                      attempted |-> o.attempted]

NextApp ==
  \/ OpenDataUpload(UploadFiles)
  \/ OpenDashboard
  \/ OpenPredictions
  \/ OpenInsights({FALSE})
  \/ Connectivity
  \/ Idle

SpecApp == Init /\ [][NextApp]_vars

\* A session whose four holders exist and are empty, as the specification
\* describes the current dataset, model, predictions and insights, and as the
\* tests "is None" of the pages expect them; app.py itself assigns none of them
\* before it reads them.
NoneAttr == [kind |-> "None", v |-> <<>>]

Initialised ==
  [data |-> NoneAttr, model |-> NoneAttr, predictions |-> NoneAttr, insights |-> NoneAttr]

InitSession ==
  /\ surveys = <<>>
  /\ predictions = <<>>
  /\ insights = <<>>
  /\ dbUp = TRUE
  /\ openOwn = 0
  /\ callerOpen = TRUE
  /\ last = Idling
  /\ session_state = Initialised
  /\ backup = NoBackup
  /\ calls = [p \in Procs |-> NotCalled]

\* Files of one row each, for two respondents.
SessionFiles ==
  {File([columns |-> RawColumns, rows |-> <<row>>]) :
     row \in {r \in UploadRows : r["7. Usage frequency"].kind = "num"}}

\* The pages in such a session; the connection may be lost between the two
\* saves of the Insights page.
NextSession ==
  \/ OpenDataUpload(SessionFiles)
  \/ OpenDashboard
  \/ OpenPredictions
  \/ OpenInsights(BOOLEAN)
  \/ Connectivity
  \/ Idle

SpecSession == InitSession /\ [][NextSession]_vars

\* Uploads that differ in the usage frequency of their rows: missing, not a
\* number, 0, negative, fractional, and a whole number.
FrequencyCells ==
  {NaN, Chars(<<"d", "a", "i", "l", "y">>), Number(0), Number(-10), Number(25), Number(30)}

FrequencyRows ==
  {RawRow(email, Chars(<<"U">>), Chars(<<"E">>), NaN, Chars(YES), tools,
          freq, Chars(NONE), Chars(<<"H">>), Chars(YES), NaN) :
     email \in EmailCells, freq \in FrequencyCells, tools \in {Chars(<<"G", ",", " ", "T">>)}}

\* One row a file.
FrequencyFiles ==
  {File([columns |-> RawColumns, rows |-> <<row>>]) : row \in FrequencyRows}

NextUpload ==
  \/ OpenDataUpload(FrequencyFiles)
  \/ Connectivity
  \/ Idle

SpecUpload == Init /\ [][NextUpload]_vars

(***************************************************************************)
(* Backup and restore (db_backup.py).  The backup directory holds one JSON *)
(* array per table; created_at, the database's clock, is left out.        *)
(***************************************************************************)
\* The rows the predictions table and the insights table are each let grow to.
MaxRestored == 2

\* backup_database(): the three tables as they are written to the files.
backup_database(sv, pr, ins, db_up) ==
  IF ~db_up THEN [exc |-> "OperationalError", files |-> NoBackup]
  ELSE [exc |-> "none",
        files |-> [taken |-> TRUE, surveys |-> sv, predictions |-> pr, insights |-> ins]]

\* Survey(...) from an entry of surveys.json: every field but the id.
SurveyOfBackup(data) == [f \in (DOMAIN data) \ {"id"} |-> data[f]]

\* Variant: a backed-up survey is added whether or not its email is stored.
RestoreEverySurvey(survey_data, i, table, pending, count) ==
  [pending |-> [k \in 1..Len(survey_data) |-> SurveyOfBackup(survey_data[k])],
   count |-> Len(survey_data)]

\* The loop over survey_data from entry i on: an entry whose email the table
\* holds is passed over.
RECURSIVE RestoreSurveys(_, _, _, _, _)
RestoreSurveys(survey_data, i, table, pending, count) ==
  IF i > Len(survey_data) THEN [pending |-> pending, count |-> count]
  ELSE IF QueryFirst(table, survey_data[i].email) # {}
    THEN RestoreSurveys(survey_data, i + 1, table, pending, count)
  ELSE RestoreSurveys(survey_data, i + 1, table,
                      Append(pending, SurveyOfBackup(survey_data[i])), count + 1)

\* Prediction(...) and Insight(...) from their entries: every field but the id.
PredictionOfBackup(data) ==
  [survey_id |-> data.survey_id, adoption_probability |-> data.adoption_probability,
   model_version |-> data.model_version]

InsightOfBackup(data) ==
  [insight_text |-> data.insight_text, category |-> data.category, batch_id |-> data.batch_id]

\* The outcome of restore_database: what it raised or returned, and the tables
\* as its commits left them.
Restoring(exc, ret, sv, pr, ins) ==
  [exc |-> exc, ret |-> ret, surveys |-> sv, predictions |-> pr, insights |-> ins]

\* restore_database(backup_dir); clear is the answer to the prompt, corrupt says
\* that a backup file is no JSON, and lost_at is the step at which the
\* connection is lost (1 the clearing, 2 the surveys, 3 the predictions, 4 the
\* insights; 0 for never).  A missing directory or file returns None; an
\* exception is not caught, and what was committed before it stays.
restore_database(files, clear, corrupt, lost_at, sv, pr, ins, db_up) ==
  LET Up(step) == db_up /\ (lost_at = 0 \/ step < lost_at)
      sv0 == IF clear THEN <<>> ELSE sv
      pr0 == IF clear THEN <<>> ELSE pr
      ins0 == IF clear THEN <<>> ELSE ins
      loop == RestoreSurveys(files.surveys, 1, sv0, <<>>, 0)
      com == CommitSurveys(sv0, loop.pending, TRUE)
      newPr == [k \in 1..Len(files.predictions) |-> PredictionOfBackup(files.predictions[k])]
      newIns == [k \in 1..Len(files.insights) |-> InsightOfBackup(files.insights[k])]
      comPr == CommitAppend(pr0, newPr, Up(3))
      comIns == CommitAppend(ins0, newIns, Up(4))
  IN IF ~files.taken THEN Restoring("none", <<>>, sv, pr, ins)
     ELSE IF clear /\ ~Up(1) THEN Restoring("OperationalError", <<>>, sv, pr, ins)
     ELSE IF corrupt THEN Restoring("JSONDecodeError", <<>>, sv0, pr0, ins0)
     ELSE IF files.surveys # <<>> /\ ~Up(2)
       THEN Restoring("OperationalError", <<>>, sv0, pr0, ins0)
     ELSE IF com.exc # "none" THEN Restoring(com.exc, <<>>, sv0, pr0, ins0)
     ELSE IF comPr.exc # "none" THEN Restoring(comPr.exc, <<>>, com.table, pr0, ins0)
     ELSE IF comIns.exc # "none" THEN Restoring(comIns.exc, <<>>, com.table, comPr.table, ins0)
     ELSE Restoring("none",
                    <<[surveys_restored |-> loop.count,
                       predictions_restored |-> Len(newPr),
                       insights_restored |-> Len(newIns)]>>,
                    com.table, comPr.table, comIns.table)

Backup ==
  /\ last = Idling
  /\ LET r == backup_database(surveys, predictions, insights, dbUp)
     IN /\ backup' = IF r.exc = "none" THEN r.files ELSE backup
        /\ last' = [op |-> "backup", exc |-> r.exc]
  /\ UNCHANGED <<surveys, predictions, insights, dbUp, openOwn, callerOpen, session_state, calls>>

Restore(corruptions, losses) ==
  /\ last = Idling
  /\ \E clear \in BOOLEAN, corrupt \in corruptions, lost_at \in losses :
       LET r == restore_database(backup, clear, corrupt, lost_at,
                                 surveys, predictions, insights, dbUp)
       IN /\ Len(r.predictions) <= MaxRestored
          /\ Len(r.insights) <= MaxRestored
          /\ surveys' = r.surveys
          /\ predictions' = r.predictions
          /\ insights' = r.insights
          /\ last' = [op |-> "restore", clear |-> clear, corrupt |-> corrupt,
                      lost_at |-> lost_at, files |-> backup, exc |-> r.exc, ret |-> r.ret]
  /\ UNCHANGED <<dbUp, openOwn, callerOpen, session_state, backup, calls>>

\* A store filled by the persistence operations, backed up and restored.
RestoreFrames == SeqsUpTo({RowA1, RowB1}, 1)

NextRestore ==
  \/ Ingest(RestoreFrames, {"None"})
  \/ RecordPredictions(RestoreFrames, {<<Num(9)>>}, {"v1.0"}, {"None"}, MaxRestored)
  \/ RecordInsight(InsightTexts, {"insights"}, {Str("batch-1")}, {"None"}, MaxRestored)
  \/ Backup
  \/ Restore({FALSE}, {0})
  \/ Connectivity
  \/ Idle

SpecRestore == Init /\ [][NextRestore]_vars

\* The same with a restore that may find a file unreadable or lose the
\* connection at any of its steps.
RestoreSteps == 0..4

\* Here a prediction for a@ is always 0.9 and one for b@ always 0.2, so that a
\* stored row tells which survey it was made for.
NextRestoreFailing ==
  \/ Ingest(RestoreFrames, {"None"})
  \/ RecordPredictions({<<RowA1>>}, {<<Num(9)>>}, {"v1.0"}, {"None"}, MaxRestored)
  \/ RecordPredictions({<<RowB1>>}, {<<Num(2)>>}, {"v1.0"}, {"None"}, MaxRestored)
  \/ RecordInsight(InsightTexts, {"insights"}, {Str("batch-1")}, {"None"}, MaxRestored)
  \/ Backup
  \/ Restore(BOOLEAN, RestoreSteps)
  \/ Idle

SpecRestoreFailing == Init /\ [][NextRestoreFailing]_vars

(***************************************************************************)
(* Concurrent ingestion.  Each call runs in a transaction of its own: its  *)
(* queries read committed rows, its rows reach the table at its commit,    *)
(* where the engine checks the unique constraint.                          *)
(***************************************************************************)
\* The row of another upload with the same email.
Resent(row) == [row EXCEPT !["11. Suggestions"] = "Resent"]

\* The batches of the two calls: no batch holds an email twice, both calls
\* may hold the emails of RowA1 and RowB1, and one has an email the other lacks.
NoRepeat(df) == \A i, j \in 1..Len(df) : df[i] = df[j] => i = j

BatchesOfOne == {df \in SeqsUpTo({RowA1, RowB1}, MaxBatch) : NoRepeat(df)}
BatchesOfTwo ==
  {df \in SeqsUpTo({Resent(RowA1), Resent(RowB1), RowC1}, MaxBatch) : NoRepeat(df)}

\* The loop is over when every row was read.
AfterRow(df, i) == IF i > Len(df) THEN "commit" ELSE "loop"

\* load_survey_data_to_db is called: the session is opened, count = 0.
BeginIngest(p, batches) ==
  /\ calls[p].pc = "ready"
  /\ \E df \in batches :
       calls' = [calls EXCEPT ![p] = [NotCalled EXCEPT !.pc = AfterRow(df, 1), !.df = df,
                                                        !.snapshot = surveys]]
  /\ UNCHANGED <<surveys, predictions, insights, dbUp, openOwn, callerOpen, last, session_state, backup>>

\* One turn of the loop: the query, then the add.  The query reads the rows
\* committed by now or those committed when the call began, as the isolation
\* level of the engine has it.  An exception goes to the except clause:
\* rollback, raise.
IngestRow(p) ==
  /\ calls[p].pc = "loop"
  /\ \E view \in {surveys, calls[p].snapshot} :
       LET c == calls[p]
           r == LoadLoop(<<c.df[c.i]>>, 1, view, dbUp, c.pending, c.count)
       IN calls' = [calls EXCEPT ![p] =
                      IF r.exc # "none"
                        THEN [c EXCEPT !.pc = "done", !.exc = r.exc, !.pending = <<>>]
                      ELSE [c EXCEPT !.pc = AfterRow(c.df, c.i + 1), !.i = c.i + 1,
                                     !.pending = r.pending, !.count = r.count]]
  /\ UNCHANGED <<surveys, predictions, insights, dbUp, openOwn, callerOpen, last, session_state, backup>>

\* db_session.commit(), and on its failure rollback and raise.
CommitIngest(p) ==
  /\ calls[p].pc = "commit"
  /\ LET c == calls[p]
         com == CommitSurveys(surveys, c.pending, dbUp)
     IN /\ surveys' = IF com.exc = "none" THEN com.table ELSE Rollback(surveys, c.pending)
        /\ calls' = [calls EXCEPT ![p] =
                       [c EXCEPT !.pc = "done", !.exc = com.exc, !.pending = <<>>,
                                 !.ret = IF com.exc = "none" THEN LoadReturn(c.count, c.df)
                                         ELSE <<>>]]
  /\ UNCHANGED <<predictions, insights, dbUp, openOwn, callerOpen, last, session_state, backup>>

NextConcurrent ==
  \/ BeginIngest(1, BatchesOfOne)
  \/ BeginIngest(2, BatchesOfTwo)
  \/ \E p \in Procs : IngestRow(p)
  \/ \E p \in Procs : CommitIngest(p)

SpecConcurrent == Init /\ [][NextConcurrent]_vars

(***************************************************************************)
(* Claims.                                                                 *)
(***************************************************************************)
PersistenceOps == {"ingest", "recordPredictions", "recordInsight", "fetchSurveys"}

Emails(table) == {table[k].email : k \in 1..Len(table)}

EmailOf(row) == row["1. Email"]

\* The rows of df whose email is stored in table.
StoredRows(df, table) == {i \in 1..Len(df) : EmailOf(df[i]) \in Emails(table)}

NoTwoRowsSameEmail ==
  \A i, j \in 1..Len(surveys) : i # j => surveys[i].email # surveys[j].email

\* An ingest step: no inserted row carries an email that was stored, the count
\* returned is the number of rows whose email was not stored, and when the call
\* raises, the cause lies in the rows whose email was not stored (or the
\* connection is down).
IngestSkipsStored ==
  (last.op = "idle" /\ last'.op = "ingest") =>
    LET df == last'.df
        fresh == (1..Len(df)) \ StoredRows(df, surveys)
    IN /\ \A k \in (Len(surveys) + 1)..Len(surveys') : surveys'[k].email \notin Emails(surveys)
       /\ last'.exc = "none" =>
            /\ last'.ret[1] = Cardinality(fresh)
            /\ Len(surveys') = Len(surveys) + Cardinality(fresh)
       /\ last'.exc # "none" =>
            \/ ~dbUp
            \/ \E i \in fresh : IntRaises(df[i]["7. Usage frequency"])
            \/ \E i, j \in fresh : i # j /\ EmailOf(df[i]) = EmailOf(df[j])

\* C1: after any sequence of ingest calls the surveys table holds no two rows
\* with the same email; a row whose email is already stored is not inserted, is
\* not counted as added, and is never what makes the call raise.
C1_UniqueEmailSkip == []NoTwoRowsSameEmail /\ [][IngestSkipsStored]_vars

\* A batch whose first row carries a stored email (with other field values and
\* a frequency that does not convert) and whose second row is new: one added.
C1_Witness ==
  /\ last.op = "ingest"
  /\ last.df = <<RowA2, RowB1>>
  /\ last.exc = "none"
  /\ last.ret = <<1>>
  /\ Len(surveys) = 2
  /\ surveys[1].email = EmailOf(RowA2)
  /\ surveys[2].email = EmailOf(RowB1)

\* C2: ingest returns the triple (inserted, skipped, skipped emails) with
\* inserted + skipped equal to the number of input rows, the triple the Data
\* Upload page unpacks.
C2_ReturnsTriple ==
  (last.op = "ingest" /\ last.exc = "none") =>
    /\ Len(last.ret) = 3
    /\ last.ret[1] + last.ret[2] = Len(last.df)
    /\ LET before == SubSeq(surveys, 1, Len(surveys) - last.ret[1])
           skipped == SelectSeq(last.df, LAMBDA row : EmailOf(row) \in Emails(before))
       IN last.ret[3] = [i \in 1..Len(skipped) |-> EmailOf(skipped[i])]

\* C3: when ingest raises, the surveys table is what it was before the call
\* and the call returns no value.
C3_RaiseLeavesTable ==
  [][(last.op = "idle" /\ last'.op = "ingest" /\ last'.exc # "none")
       => (surveys' = surveys /\ last'.ret = <<>>)]_vars

\* A new row was added to the session before the row that does not convert.
C3_Witness ==
  /\ last.op = "ingest"
  /\ last.df = <<RowB1, RowA2>>
  /\ last.exc = "ValueError"
  /\ surveys = <<>>

\* C4: every stored survey row keeps every field it was inserted with, under
\* ingest, recordPredictions, recordInsight and fetchSurveys.
C4_SurveyRowsFrozen ==
  [][\A k \in 1..Len(surveys) : k <= Len(surveys') /\ surveys'[k] = surveys[k]]_vars

\* A later batch carried a stored email with other field values.
C4_Witness ==
  /\ last.op = "ingest"
  /\ last.df = <<RowA2>>
  /\ last.exc = "none"
  /\ \E k \in 1..Len(surveys) :
       surveys[k].email = EmailOf(RowA2) /\ surveys[k].faculty # RowA2["3. Faculty"]

\* The entries of preds that recordPredictions saves: those whose row email is
\* stored, in order.
MatchedEntries(data, preds, table) ==
  SelectSeq([i \in 1..Len(preds) |-> i], LAMBDA i : EmailOf(data[i]) \in Emails(table))

SurveyIdOf(table, email) == (CHOOSE s \in {table[k] : k \in 1..Len(table)} : s.email = email).id

\* A recordPredictions step with an entry for every row it reads, and every
\* entry it saves convertible: it does not raise, and the rows it adds are those
\* of the matched entries, none for an unmatched one.
UnmatchedAreSkipped ==
  (last.op = "idle" /\ last'.op = "recordPredictions") =>
    LET data == last'.data
        preds == last'.preds
    IN (/\ dbUp
        /\ Len(preds) <= Len(data)
        /\ \A i \in 1..Len(preds) :
             EmailOf(data[i]) \in Emails(surveys) => ~FloatRaises(preds[i]))
       => LET matched == MatchedEntries(data, preds, surveys)
          IN /\ last'.exc = "none"
             /\ Len(predictions') = Len(predictions) + Len(matched)
             /\ \A j \in 1..Len(matched) :
                  LET row == predictions'[Len(predictions) + j]
                  IN /\ row.survey_id = SurveyIdOf(surveys, EmailOf(data[matched[j]]))
                     /\ row.adoption_probability = PyFloat(preds[matched[j]])

\* C5: recordPredictions skips a prediction whose row email has no survey: no
\* row is created for it, the call does not raise, the others are saved.
C5_UnmatchedSkipped == [][UnmatchedAreSkipped]_vars

\* The first entry has no survey, the second has one and is saved.
C5_Witness ==
  /\ last.op = "recordPredictions"
  /\ last.data = <<RowC1, RowA1>>
  /\ last.preds = <<Num(9), Num(9)>>
  /\ last.exc = "none"
  /\ last.ret = <<1>>
  /\ \E k \in 1..Len(surveys) : surveys[k].email = EmailOf(RowA1)

\* A recordPredictions step keeps every row the table held, and when it returns
\* it has added as many rows as it reports, one per matched entry.
PredictionsAppendOnly ==
  (last.op = "idle" /\ last'.op = "recordPredictions") =>
    /\ Len(predictions') >= Len(predictions)
    /\ SubSeq(predictions', 1, Len(predictions)) = predictions
    /\ last'.exc = "none" =>
         /\ Len(last'.ret) = 1
         /\ last'.ret[1] = Len(predictions') - Len(predictions)
         /\ last'.ret[1] = Len(MatchedEntries(last'.data, last'.preds, surveys))

\* The call that has just returned, made again on the state it left: it returns
\* the same number and adds that many rows again.
RepeatAddsAgain ==
  (last.op = "recordPredictions" /\ last.exc = "none" /\ dbUp) =>
    LET again == save_predictions_to_db(last.data, last.preds, last.model_version,
                                        last.db_session, surveys, predictions, dbUp)
    IN /\ again.exc = "none"
       /\ again.ret = last.ret
       /\ Len(again.table) = Len(predictions) + last.ret[1]
       /\ SubSeq(again.table, 1, Len(predictions)) = predictions

\* C6: the predictions table is append-only under recordPredictions: no row is
\* changed or deleted, one row is added per matched prediction, that number is
\* returned, and the same call made again adds as many rows again.
C6_AppendOnly == [][PredictionsAppendOnly]_vars /\ []RepeatAddsAgain

\* The same survey and model version twice in the table.
C6_Witness ==
  /\ last.op = "recordPredictions"
  /\ last.exc = "none"
  /\ last.ret = <<1>>
  /\ Len(predictions) = 2
  /\ predictions[1].survey_id = predictions[2].survey_id
  /\ predictions[1].model_version = predictions[2].model_version
  /\ predictions[1].adoption_probability = predictions[2].adoption_probability

\* C7: predict_adoption on data with every feature column and no target column
\* does not fail and returns one probability per row, in row order.
C7_PredictsWithoutTarget ==
  (/\ last.op = "predict_adoption"
   /\ features \subseteq last.data.columns
   /\ target \notin last.data.columns)
  => /\ last.exc = "none"
     /\ Len(last.ret) = Len(last.data.rows)
     /\ \A i \in 1..Len(last.ret) :
          last.ret[i] = PredictProba(last.model, Project(last.data.rows[i], features))

\* C8: with OPENROUTER_API_KEY not set, get_ai_insights makes no remote call and
\* returns the canned text, which holds both markers.
C8_NoCredentialNoCall ==
  (last.op = "get_ai_insights" /\ last.env_key = None) =>
    /\ last.posted = <<>>
    /\ last.ret = Text(generate_mock_insights)
    /\ Contains(last.ret.text, "Insights:")
    /\ Contains(last.ret.text, "Recommendations:")

\* The reply holds choices[0].message.content.
Complete(body) == body.json /\ body.depth = "content"

\* C9: get_ai_insights never raises; after a remote call that raised, that
\* answered with a non-2xx status, or that answered 200 with a body lacking the
\* expected fields, it returns the canned text; after a 200 reply with the
\* fields it returns the content of the message as it is.
C9_NeverPropagates ==
  last.op = "get_ai_insights" =>
    /\ last.exc = "none"
    /\ last.posted # <<>> =>
         LET reply == last.reply
         IN /\ reply.kind = "raises" => last.ret = Text(generate_mock_insights)
            /\ (reply.kind = "response" /\ reply.status \notin 200..299)
                 => last.ret = Text(generate_mock_insights)
            /\ (reply.kind = "response" /\ reply.status = 200 /\ ~Complete(reply.body))
                 => last.ret = Text(generate_mock_insights)
            /\ (reply.kind = "response" /\ reply.status = 200 /\ Complete(reply.body))
                 => last.ret = reply.body.content

\* A 200 reply that is JSON and has no "choices".
C9_Witness ==
  /\ last.op = "get_ai_insights"
  /\ last.posted # <<>>
  /\ last.reply.kind = "response"
  /\ last.reply.status = 200
  /\ last.reply.body.depth = "no_choices"
  /\ last.ret = Text(generate_mock_insights)

\* C10: a persistence operation called without a session has closed the session
\* it opened when it returns or raises, and none closes a session of the caller.
C10_SessionsClosed ==
  /\ openOwn = 0
  /\ callerOpen
  /\ last.op \in PersistenceOps => (last.closed <=> last.db_session = "None")

\* An operation that opened its session and raised.
C10_Witness ==
  /\ last.op = "recordInsight"
  /\ last.db_session = "None"
  /\ last.exc # "none"
  /\ last.closed
  /\ openOwn = 0

\* The frame a returning preprocess_data call gave.
Preprocessed == last.op = "preprocess_data" /\ last.exc = "none"

\* The comma-separated entries of a field: the sentinel has none.
CommaEntries(cell) ==
  IF cell.chars = NONE THEN 0 ELSE Len(Split(cell.chars, <<",">>))

\* C11: in every row preprocess_data produces, tools_count is 0 when the tools
\* field is "None" and else the number of its comma-separated entries, with or
\* without a space after the comma; challenges_count likewise.
C11_CountsCommaEntries ==
  Preprocessed =>
    \A i \in 1..Len(last.ret.rows) :
      LET row == last.ret.rows[i]
      IN /\ row["tools_count"] = CommaEntries(row["6. Tools used"])
         /\ row["challenges_count"] = CommaEntries(row["8. Challenges"])

\* C12: in every row preprocess_data produces, adoption_positive is 1 exactly
\* when the improves-learning field is the string "Yes", compared as it stands;
\* a missing answer was filled with "No" and gives 0.
C12_PositiveIffYes ==
  Preprocessed =>
    \A i \in 1..Len(last.ret.rows) :
      LET given == last.data.rows[i]["10. Improves learning?"]
          row == last.ret.rows[i]
      IN /\ row["adoption_positive"] \in {0, 1}
         /\ row["adoption_positive"] = 1 <=> row["10. Improves learning?"] = Chars(YES)
         /\ given.kind = "nan" =>
              /\ row["10. Improves learning?"] = Chars(NO)
              /\ row["adoption_positive"] = 0

\* An answer that is "Yes" followed by a space counts as not positive.
C12_Witness ==
  /\ Preprocessed
  /\ \E i \in 1..Len(last.ret.rows) :
       /\ last.ret.rows[i]["10. Improves learning?"] = Chars(<<"Y", "e", "s", " ">>)
       /\ last.ret.rows[i]["adoption_positive"] = 0

\* A chart builder has returned or raised.
Charted == last.op \in {"create_tool_usage_chart", "create_challenges_chart"}

\* The rows of the charted frame whose field is not the sentinel.
WithoutSentinel(data, column) ==
  [columns |-> data.columns,
   rows |-> SelectSeq(data.rows, LAMBDA row : row[column] # Chars(NONE))]

\* C13: a field equal to "None" adds no entry to a chart's frequency count: the
\* categories are those of the frame without such rows, and a frame in which
\* every row has "None" gives an empty category set, without failing and with
\* no category named "None".
C13_SentinelCountsNothing ==
  (Charted /\ last.column \in last.data.columns) =>
    /\ last.exc = "none"
    /\ last.categories = FrequencyChart(WithoutSentinel(last.data, last.column), last.column,
                                        IF last.op = "create_tool_usage_chart" THEN 10 ELSE 8).categories
    /\ (\A i \in 1..Len(last.data.rows) : last.data.rows[i][last.column] = Chars(NONE))
         => DOMAIN last.categories = {}

\* The challenges chart of two rows that both say "None".
C13_Witness ==
  /\ last.op = "create_challenges_chart"
  /\ Len(last.data.rows) = 2
  /\ \A i \in 1..2 : last.data.rows[i]["8. Challenges"] = Chars(NONE)
  /\ last.exc = "none"
  /\ DOMAIN last.categories = {}

\* A page that depends on the dataset, or on the model, was opened.
DependentPages == {"Dashboard", "AI Predictions", "Insights & Suggestions"}

\* The session held no dataset, or for AI Predictions no model, when the page
\* was opened.
NotReady ==
  /\ last.op \in DependentPages
  /\ \/ last.before.data.kind # "value"
     \/ last.op = "AI Predictions" /\ last.before.model.kind # "value"

\* C14: a dependent page opened before a dataset was uploaded (AI Predictions:
\* before a model was trained) shows the "upload data / train a model first"
\* message, calls no dependent operation and raises nothing.
C14_NotReadyIsReported ==
  NotReady =>
    /\ last.exc = "none"
    /\ last.message \in {"Please upload data first", "Please train a model first"}
    /\ last.attempted = <<>>

\* fetchSurveys has returned.
Fetched == last.op = "fetchSurveys" /\ last.exc = "none"

\* A fetch leaves the three tables as they are.
FetchLeavesStore ==
  last'.op = "fetchSurveys" =>
    surveys' = surveys /\ predictions' = predictions /\ insights' = insights

\* C15: fetchSurveys with a limit n >= 0 returns the first n stored rows (all of
\* them when fewer are stored), so at most n, also for n = 0; without a limit it
\* returns every stored row; the rows come in insertion order and the store is
\* left unchanged.
C15_FetchWithinLimit ==
  /\ [](Fetched =>
          /\ last.limit.some => (Len(last.ret) <= last.limit.n /\ last.ret = Prefix(surveys, last.limit.n))
          /\ ~last.limit.some => last.ret = surveys)
  /\ [][FetchLeavesStore]_vars

\* A restore without clearing that ran to its end.
Restored ==
  /\ last'.op = "restore"
  /\ ~last'.clear
  /\ last'.exc = "none"
  /\ last'.ret # <<>>

\* The rows of a table without their ids.
Contents(table, Of(_)) == [k \in 1..Len(table) |-> Of(table[k])]

\* A restore of a backup that was taken runs to its end while the database is
\* reachable and the files are readable: no backed-up survey collides with a
\* stored one.
RestoreCompletes ==
  (last'.op = "restore" /\ backup.taken /\ dbUp /\ ~last'.corrupt /\ last'.lost_at = 0)
    => (last'.exc = "none" /\ last'.ret # <<>>)

\* The step of a restore that is run without clearing.
RestoreStep ==
  Restored =>
    \* every backed-up email is stored afterwards, once, and no stored row changes
    /\ Emails(backup.surveys) \subseteq Emails(surveys')
    /\ UniqueEmail(surveys')
    /\ SubSeq(surveys', 1, Len(surveys)) = surveys
    \* run again on a store that holds the backed-up emails, it adds no survey
    /\ Emails(backup.surveys) \subseteq Emails(surveys) => surveys' = surveys
    \* every run adds every backed-up prediction and insight
    /\ Len(predictions') = Len(predictions) + Len(backup.predictions)
    /\ SubSeq(predictions', 1, Len(predictions)) = predictions
    /\ Contents(SubSeq(predictions', Len(predictions) + 1, Len(predictions')), PredictionOfBackup)
         = Contents(backup.predictions, PredictionOfBackup)
    /\ Len(insights') = Len(insights) + Len(backup.insights)
    /\ SubSeq(insights', 1, Len(insights)) = insights
    /\ Contents(SubSeq(insights', Len(insights) + 1, Len(insights')), InsightOfBackup)
         = Contents(backup.insights, InsightOfBackup)

\* C16: restore_database run without clearing restores each backed-up survey
\* once, so a second run on the same backup leaves the surveys table as the
\* first run left it, while every run adds all backed-up predictions and
\* insights again, doubling those rows on the second run.
C16_RestoreIdempotentForSurveysOnly == [][RestoreCompletes /\ RestoreStep]_vars

\* A second run: no survey was restored, and the predictions and insights of
\* the backup are stored twice over.
C16_Witness ==
  /\ last.op = "restore"
  /\ ~last.clear
  /\ last.exc = "none"
  /\ last.ret # <<>>
  /\ last.files.surveys # <<>>
  /\ last.ret[1].surveys_restored = 0
  /\ Len(last.files.predictions) = 1
  /\ Len(last.files.insights) = 1
  /\ surveys = last.files.surveys
  /\ Contents(predictions, PredictionOfBackup)
       = Contents(last.files.predictions \o last.files.predictions, PredictionOfBackup)
  /\ Contents(insights, InsightOfBackup)
       = Contents(last.files.insights \o last.files.insights, InsightOfBackup)

\* The columns df.fillna gives a default, with the defaults of the specification.
Defaults ==
  ("4. AI familiarity" :> Chars(NOT_FAMILIAR)) @@ ("5. Used AI tools" :> Chars(NONE))
  @@ ("6. Tools used" :> Chars(NONE)) @@ ("8. Challenges" :> Chars(NONE))
  @@ ("10. Improves learning?" :> Chars(NO))

\* The numbers the modelled frequency strings read as, in tenths.
ReadsAs == (<<"3">> :> 30) @@ (<<"2", ".", "5">> :> 25)

\* C17: preprocess_data does not fail on a usage-frequency value: a missing or
\* unparsable one becomes 1 and a parsable one is kept as its number; a missing
\* value in the familiarity, used-tools, tools, challenges or improves-learning
\* column becomes that column's default, and a missing value in any other
\* column stays missing.
C17_CoercesAndFills ==
  (last.op = "preprocess_data"
     /\ \A k \in 1..Len(ReadColumns) : ReadColumns[k] \in last.data.columns) =>
    /\ last.exc = "none"
    /\ \A i \in 1..Len(last.data.rows) :
         LET given == last.data.rows[i]
             row == last.ret.rows[i]
             freq == given["7. Usage frequency"]
         IN /\ row["7. Usage frequency"] =
                 IF freq.kind = "num" THEN freq
                 ELSE IF freq.kind = "str" /\ freq.chars \in DOMAIN ReadsAs
                   THEN Number(ReadsAs[freq.chars])
                 ELSE Number(10)
            /\ \A c \in DOMAIN given :
                 IF c = "7. Usage frequency" THEN TRUE
                 ELSE IF given[c].kind # "nan" THEN row[c] = given[c]
                 ELSE IF c \in DOMAIN Defaults THEN row[c] = Defaults[c]
                 ELSE row[c] = NaN

\* A row with an unparsable frequency, a missing tools field and a missing
\* suggestion.
C17_Witness ==
  /\ Preprocessed
  /\ \E i \in 1..Len(last.ret.rows) :
       /\ last.data.rows[i]["7. Usage frequency"] = Chars(<<"d", "a", "i", "l", "y">>)
       /\ last.ret.rows[i]["7. Usage frequency"] = Number(10)
       /\ last.data.rows[i]["6. Tools used"] = NaN
       /\ last.ret.rows[i]["6. Tools used"] = Chars(NONE)
       /\ last.ret.rows[i]["11. Suggestions"] = NaN

\* A file that lacks one of the eleven columns was uploaded.
LacksColumn ==
  /\ last.op = "Data Upload"
  /\ last.uploaded_file.some
  /\ ~(RawColumns \subseteq last.uploaded_file.data.columns)

\* C18: when the uploaded file lacks a required column, preprocess_data raises a
\* lookup failure that the Data Upload handler catches and reports: no exception
\* leaves the handler, the dataset of the session is not replaced and nothing
\* is written to the store.
C18_MissingColumnIsReported ==
  LacksColumn =>
    /\ last.exc = "none"
    /\ last.message \in {"Error processing file", "not enough columns"}
    /\ Cardinality(last.uploaded_file.data.columns) >= 5 =>
         (last.caught = "KeyError" /\ last.attempted = <<"preprocess_data">>)
    /\ session_state.data = last.before.data
    /\ surveys = last.stored

\* An ingest was called, with the database reachable, on a batch that holds one
\* email in two rows and no row whose frequency int() rejects.
RepeatsEmail ==
  /\ last.op = "ingest"
  /\ last.exc # "OperationalError"
  /\ \E i, j \in 1..Len(last.df) : i < j /\ EmailOf(last.df[i]) = EmailOf(last.df[j])
  /\ \A i \in 1..Len(last.df) : ~IntRaises(last.df[i]["7. Usage frequency"])

\* C19: a batch that holds the same new email in two rows commits without
\* error: the first of the rows is inserted and the second is skipped as an
\* existing entry.
C19_RepeatIsSkippedInBatch ==
  RepeatsEmail =>
    /\ last.exc = "none"
    /\ \A i \in 1..Len(last.df) : EmailOf(last.df[i]) \in Emails(surveys)

\* recordPredictions raised.
RecordRaised == last'.op = "recordPredictions" /\ last'.exc # "none"

\* C20: when recordPredictions raises part-way through a batch, no prediction of
\* the batch is persisted: the predictions table is what it was before the call,
\* and the exception reaches the caller.
C20_RaiseLeavesPredictions ==
  [][RecordRaised => (predictions' = predictions /\ surveys' = surveys /\ last'.ret = <<>>)]_vars

\* The first entry found its survey and was added to the session; the second
\* is no number.
C20_Witness ==
  /\ last.op = "recordPredictions"
  /\ last.exc = "ValueError"
  /\ Len(last.preds) = 2
  /\ Len(last.data) = 2
  /\ ~FloatRaises(last.preds[1])
  /\ EmailOf(last.data[1]) \in Emails(surveys)
  /\ EmailOf(last.data[2]) \in Emails(surveys)

\* The rows a recordPredictions step adds are, in order, those of the entries
\* whose row at the same position has a survey: each refers to that survey and
\* carries the entry as a float and the version of the call.
AddedByPosition ==
  (last.op = "idle" /\ last'.op = "recordPredictions") =>
    LET data == last'.data
        preds == last'.preds
        added == SubSeq(predictions', Len(predictions) + 1, Len(predictions'))
    IN added # <<>> =>
         LET matched == MatchedEntries(data, preds, surveys)
         IN /\ Len(added) = Len(matched)
            /\ \A j \in 1..Len(added) :
                 /\ \E k \in 1..Len(surveys) :
                      /\ surveys[k].id = added[j].survey_id
                      /\ surveys[k].email = data[matched[j]]["1. Email"]
                 /\ added[j].adoption_probability = preds[matched[j]].tenths
                 /\ added[j].model_version = last'.model_version

\* C21: every prediction row recordPredictions inserts for predictions[i]
\* references the survey whose email is that of row i of data by position,
\* carries float(predictions[i]) and the given model version, also when data
\* has a non-default index or earlier rows were skipped.
C21_RowsAlignedByPosition == [][AddedByPosition]_vars

\* A frame labelled in reverse whose first row has no survey: the second entry
\* is saved for the survey of the second row.
C21_Witness ==
  /\ last.op = "recordPredictions"
  /\ last.data = <<Labelled(RowC1, 1), Labelled(RowA1, 0)>>
  /\ last.preds = <<Num(2), Num(9)>>
  /\ last.model_version = "v2.0"
  /\ last.exc = "none"
  /\ last.ret = <<1>>
  /\ Len(predictions) >= 1
  /\ predictions[Len(predictions)].adoption_probability = 9
  /\ predictions[Len(predictions)].model_version = "v2.0"

\* The Insights page opened now, with a dataset in the session and no insights
\* text yet, for a reply of the service.
VisitNow(env_key, reply) ==
  InsightsPage(env_key, None, reply, session_state, surveys, predictions, insights, dbUp, FALSE)

LacksMarker(ret) ==
  /\ ~ret.none
  /\ ~(Contains(ret.text, "Insights:") /\ Contains(ret.text, "Recommendations:"))

\* C23: when the text the insights client returns lacks "Insights:" or
\* "Recommendations:", the Insights page persists no insight row, reports a
\* formatting failure, and a later visit of the session does not call the
\* client again.
C23_FormatFailureNotRetried ==
  (session_state.data.kind = "value" /\ session_state.insights.kind # "value") =>
    \A env_key \in EnvKeys, reply \in {r \in Replies : r.status \in {0, 200}} :
      LET g == get_ai_insights(<<"Analyze", "this", "survey", "data">>, env_key, None, reply)
          o == VisitNow(env_key, reply)
          later == InsightsPage(env_key, None, reply, o.state, o.surveys, o.predictions,
                                o.insights, dbUp, FALSE)
      IN LacksMarker(g.ret) =>
           /\ o.exc = "none"
           /\ o.message = "Failed to generate proper insights format"
           /\ o.insights = insights
           /\ "get_ai_insights" \notin {later.attempted[k] : k \in 1..Len(later.attempted)}

\* C24: every survey row stored through preprocess_data followed by ingest has
\* an integer usage frequency of at least 1 and non-negative tools_count and
\* challenges_count, whatever the raw usage frequency was (missing,
\* unparsable, 0, negative, fractional).
C24_StoredFrequencyAtLeastOne ==
  \A k \in 1..Len(surveys) :
    /\ surveys[k].usage_frequency \in Int
    /\ surveys[k].usage_frequency >= 1
    /\ surveys[k].tools_count \in Nat
    /\ surveys[k].challenges_count \in Nat

\* A restore that raises leaves the three tables as they were.
FailedRestoreChangesNothing ==
  (last.op = "idle" /\ last'.op = "restore" /\ last'.exc # "none") =>
    /\ surveys' = surveys
    /\ predictions' = predictions
    /\ insights' = insights

\* C25: restore_database makes no partial commit: if it fails at any step
\* (reading a backup file, or committing surveys, predictions or insights) the
\* store is left as it was before the call, also when the operator chose to
\* clear existing data first.
C25_RestoreAllOrNothing == [][FailedRestoreChangesNothing]_vars

\* The email of the survey a stored prediction was made for, where predictions
\* for a@ are 0.9 and predictions for b@ are 0.2.
MadeFor(prediction) ==
  IF prediction.adoption_probability = 9 THEN EmailOf(RowA1) ELSE EmailOf(RowB1)

\* C26: after any sequence of ingest, recordPredictions, backup and restore,
\* with or without clearing, every prediction row's survey_id is the id of a
\* survey row now in the store, and that row is the survey the prediction was
\* made for.
C26_PredictionsReferToTheirSurvey ==
  \A k \in 1..Len(predictions) :
    \E j \in 1..Len(surveys) :
      /\ surveys[j].id = predictions[k].survey_id
      /\ surveys[j].email = MadeFor(predictions[k])

\* The stored rows that came from the dataframe of a call.
StoredOf(df) ==
  {k \in 1..Len(surveys) :
     \E i \in 1..Len(df) : SurveyOfBackup(surveys[k]) = SurveyOfRow(df[i])}

\* A call that lost at its commit left no row, and the other call had
\* committed a row with an email of its batch.
LoserLeavesNothing(p, q) ==
  (calls[p].pc = "done" /\ calls[p].exc = "IntegrityError") =>
    /\ StoredOf(calls[p].df) = {}
    /\ calls[q].pc = "done" /\ calls[q].exc = "none"
    /\ \E k \in StoredOf(calls[q].df), i \in 1..Len(calls[p].df) :
         surveys[k].email = EmailOf(calls[p].df[i])

\* A call that returned stored as many rows as it reports, and every email of
\* its batch is stored.
WinnerStoresItsRows(p) ==
  (calls[p].pc = "done" /\ calls[p].exc = "none") =>
    /\ calls[p].ret = <<Cardinality(StoredOf(calls[p].df))>>
    /\ \A i \in 1..Len(calls[p].df) : EmailOf(calls[p].df[i]) \in Emails(surveys)

\* C28: under any interleaving of two concurrent ingest calls whose batches
\* share an email not yet stored, the store never holds two rows for that
\* email: one call commits its rows, and the call that loses the unique-email
\* check at its commit raises and has its whole batch rolled back, so that
\* none of its other rows is stored either.
C28_OneCallWinsTheEmail ==
  /\ UniqueEmail(surveys)
  /\ \A p \in Procs : calls[p].pc # "done" => StoredOf(calls[p].df) = {}
  /\ LoserLeavesNothing(1, 2) /\ LoserLeavesNothing(2, 1)
  /\ WinnerStoresItsRows(1) /\ WinnerStoresItsRows(2)

\* The second call added c@ and then the shared email, and lost: neither of
\* its rows is stored, the rows of the first call are.
C28_Witness ==
  /\ calls[1].pc = "done" /\ calls[1].exc = "none"
  /\ calls[1].df = <<RowA1, RowB1>>
  /\ calls[2].pc = "done" /\ calls[2].exc = "IntegrityError"
  /\ calls[2].df = <<RowC1, Resent(RowA1)>>
  /\ calls[2].count = 2
  /\ Emails(surveys) = {EmailOf(RowA1), EmailOf(RowB1)}

\* The row of a dataframe that a stored survey was made of.
RowWithEmail(df, email) == df[CHOOSE i \in 1..Len(df) : df[i]["1. Email"] = email]

\* An ingest step that returns, followed by fetchSurveys and
\* surveys_to_dataframe: every row inserted from a preprocessed row comes back
\* with its values, in a frame prepare_features accepts.
ComesBackAsIngested ==
  (last.op = "idle" /\ last'.op = "ingest" /\ last'.exc = "none" /\ dbUp) =>
    LET fetched == get_surveys_from_db(NoLimit, "None", surveys', dbUp)
        frame == surveys_to_dataframe(fetched.ret)
    IN \A k \in (Len(surveys) + 1)..Len(surveys') :
         LET row == RowWithEmail(last'.df, surveys'[k].email)
         IN {"tools_count", "challenges_count", "adoption_positive"} \subseteq DOMAIN row =>
              /\ \A c \in DOMAIN RowC1 \cup {"tools_count", "challenges_count"} :
                   frame.rows[k][c] = row[c]
              /\ prepare_features(frame).exc = "none"

\* C29: round trip through the store: for every preprocessed row that ingest
\* inserts, fetchSurveys followed by surveys_to_dataframe yields a row with the
\* same values in the eleven survey columns and in tools_count and
\* challenges_count, in a dataframe that has every column train_model and
\* predict_adoption require.
C29_RoundTripThroughStore == [][ComesBackAsIngested]_vars

\* The entries the chart builders collect from one row.
ChartedOf(row, column) == Collect(<<row>>, column, 1, <<>>)

\* C30: for every tools or challenges string, the tools_count and
\* challenges_count preprocess_data computes equal the length of the list
\* extract_tools and extract_challenges return, which is the number of entries
\* the chart builders count for the row.
C30_CountsAgreeWithExtraction ==
  Preprocessed =>
    \A i \in 1..Len(last.ret.rows) :
      LET row == last.ret.rows[i]
          tools == row["6. Tools used"]
          challenges == row["8. Challenges"]
      IN /\ tools.kind = "str" =>
              /\ extract_tools(tools).exc = "none"
              /\ row["tools_count"] = Len(extract_tools(tools).ret)
              /\ row["tools_count"] = Len(ChartedOf(row, "6. Tools used"))
         /\ challenges.kind = "str" =>
              /\ extract_challenges(challenges).exc = "none"
              /\ row["challenges_count"] = Len(extract_challenges(challenges).ret)
              /\ row["challenges_count"] = Len(ChartedOf(row, "8. Challenges"))

\* The rows of the batch the Insights page saved.
BatchOfPage == {k \in 1..Len(insights) : insights[k].batch_id = "uuid4"}

PredictionsMatchData ==
  session_state.predictions.kind = "value" =>
    /\ session_state.data.kind = "value"
    /\ Len(session_state.predictions.v) = Len(session_state.data.v.rows)

\* What was derived from a dataset does not stay when an upload replaces it.
UploadDropsDerived ==
  (last'.op = "Data Upload" /\ session_state.data.kind = "value"
     /\ session_state'.data # session_state.data) =>
    /\ session_state'.predictions.kind # "value"
    /\ session_state'.insights.kind # "value"

====
